---- MODULE Spec2Model ----
(***************************************************************************)
(* Progress streaming of DocIntelAI's chat pipeline.                       *)
(*                                                                         *)
(* send_message (app/routes/chat_routes.py) runs the retrieval pipeline    *)
(* of one request and publishes progress events into a queue.Queue kept    *)
(* in the process-wide registry session_queues; the two subscribe          *)
(* endpoints (stream_events, realtime_stream_events) drain that queue      *)
(* through a queue_consumer task and an asyncio queue and write the        *)
(* events to the client as server-sent frames.                             *)
(*                                                                         *)
(* Everything runs on one asyncio event loop, so a coroutine is atomic     *)
(* between two points where it really suspends.  An action of this model   *)
(* is the code between two such points: send_message suspends only in the  *)
(* retrieval await, in the generation await and in asyncio.to_thread (the  *)
(* retrieval decision and the query split are blocking calls); a           *)
(* queue_consumer suspends only in asyncio.sleep; a stream generator       *)
(* suspends at its yields and in asyncio.wait_for.                         *)
(***************************************************************************)
EXTENDS Integers, Sequences, FiniteSets, TLC

(* ---------------------------------------------------------------------- *)
(* Bounds                                                                  *)
(* ---------------------------------------------------------------------- *)

\* heartbeats the queue_consumer tasks of one request may inject (the code
\* injects one whenever the wall clock allows it, without limit)
MaxHeartbeats == 1

\* wait_for timeouts the streams of one request may take while the
\* registry entry exists
MaxTimeouts == 1

\* progress updates one request sends, where several requests are in flight
MaxPublished == 2

\* items of a sub-query list and lines of a plain answer
MaxItems == 2

\* sub-queries of one retrieval
MaxQueries == 3

\* chunks passed to one answer synthesis
MaxChunks == 3

\* turns of the history passed to one answer synthesis
MaxHistory == 12

(* ---------------------------------------------------------------------- *)
(* Program constants                                                       *)
(* ---------------------------------------------------------------------- *)

\* the queue id of the one request that is modelled
QueueId == "q1"

\* the subscribe connections a client may open on that queue id
Subs == {1, 2}

\* the connection that is open to every request; the other one is opened
\* only on requests that disable retrieval, whose event stream is short
\* enough for two interleaved connections to be explored
First == 1

\* the queue ids of the requests in flight, where several are modelled
Tokens == {"t1", "t2"}

\* range(5) of generation_background_updates
BackgroundUpdates == 5

\* "progressPercentage": 40 of the hand-built splitting_query event
SplitPercentage == 40

Min(a, b) == IF a < b THEN a ELSE b

Range(f) == {f[i] : i \in DOMAIN f}

\* the stages list of send_realtime_update
Stages ==
  << "analyzing_query", "deciding_retrieval", "splitting_query",
     "retrieving_documents", "generating_answer", "complete" >>

\* the stages list of the timer callback (no "complete")
CallbackStages ==
  << "analyzing_query", "deciding_retrieval", "splitting_query",
     "retrieving_documents", "generating_answer" >>

\* list.index: 0-based position of x in the list s, x is in s
IndexOf(s, x) == (CHOOSE i \in DOMAIN s : s[i] = x) - 1

\* progress_percentage of send_realtime_update
ProgressPercentage(stage, is_completed) ==
  IF stage \notin Range(Stages) THEN 0
  ELSE IF stage = "complete" THEN 100
  ELSE IF is_completed THEN Min(100, (IndexOf(Stages, stage) + 1) * 20)
  ELSE Min(100, IndexOf(Stages, stage) * 20 + 10)

\* the update dictionary send_realtime_update builds; error is
\* details.get("error"), reasoning is details.get("reasoning") ("None"
\* when details has no such key), seq is the position in the publish order
\* (the model's name for the event, not a field of the payload)
Update(stage, is_completed, error, reasoning, seq) ==
  [ type |-> "processing_update", stage |-> stage,
    isCompleted |-> is_completed,
    progressPercentage |-> ProgressPercentage(stage, is_completed),
    error |-> error, reasoning |-> reasoning, seq |-> seq ]

\* query_update, the splitting_query event send_message builds by hand
QueryUpdate(seq) ==
  [ type |-> "processing_update", stage |-> "splitting_query",
    isCompleted |-> TRUE, progressPercentage |-> SplitPercentage,
    error |-> FALSE, reasoning |-> "None", seq |-> seq ]

(* ---------------------------------------------------------------------- *)
(* Timer and its callback.  A string is the sequence of its words and      *)
(* separators, so that "x in stage" is a real substring test.             *)
(* ---------------------------------------------------------------------- *)

\* Timer("Retrieval Decision", ...) etc.: self.operation.lower()
OpRetrievalDecision == << "retrieval", " ", "decision" >>
OpQuerySplitting == << "query", " ", "splitting" >>
OpRetrieveChunks == << "retrieve", " ", "chunks" >>
OpGenerateAnswer == << "generate", " ", "answer" >>

\* f"{self.operation.lower()}_started" and "..._completed"
TimerStage(operation, suffix) == operation \o << "_", suffix >>

\* Python's  sub in s
Contains(sub, s) ==
  \E i \in 1..(Len(s) - Len(sub) + 1) : SubSeq(s, i, i + Len(sub) - 1) = sub

\* the stage mapping of the timer callback
UpdateStage(stage) ==
  IF Contains(<< "retrieval", "_", "decision" >>, stage)
    THEN "deciding_retrieval"
  ELSE IF Contains(<< "query", "_", "splitting" >>, stage)
    THEN "splitting_query"
  ELSE IF \/ Contains(<< "retrieve", "_", "chunks" >>, stage)
          \/ Contains(<< "chroma", "_", "query" >>, stage)
    THEN "retrieving_documents"
  ELSE IF Contains(<< "generate", "_", "answer" >>, stage)
    THEN "generating_answer"
  ELSE "analyzing_query"

\* one call send_realtime_update(queue, stage, message, details,
\* is_completed); error is details.get("error"), reasoning is
\* details.get("reasoning")
Call(stage, is_completed) ==
  [ stage |-> stage, is_completed |-> is_completed, error |-> FALSE,
    reasoning |-> "None", raw |-> FALSE ]

\* what one call of the timer callback hands to send_realtime_update
Callback(stage) ==
  LET update_stage == UpdateStage(stage)
      is_completed == Contains(<< "_", "completed" >>, stage)
      current_index == IndexOf(CallbackStages, update_stage)
  IN  IF is_completed
        THEN << Call(update_stage, TRUE) >> \o
             ( IF current_index < Len(CallbackStages) - 1
                 THEN << Call(CallbackStages[current_index + 2], FALSE) >>
                 ELSE << >> )
        ELSE << Call(update_stage, FALSE) >>

\* Timer.__enter__ and Timer.__exit__ (the periodic thread of __enter__
\* starts only for an operation whose lowered name contains
\* "retrieve_chunks" or "generate_answer", which no name with a blank does)
TimerEnter(operation) == Callback(TimerStage(operation, "started"))
TimerExit(operation) == Callback(TimerStage(operation, "completed"))

\* retrieval_progress_tracker / generation_progress_tracker: one
\* in-progress update of the tracker's stage
Tracker(stage) == << Call(stage, FALSE) >>

\* n copies of the sequence s
RECURSIVE Repeat(_, _)
Repeat(s, n) == IF n = 0 THEN << >> ELSE s \o Repeat(s, n - 1)

(* ---------------------------------------------------------------------- *)
(* The calls of send_realtime_update that send_message makes, segment by   *)
(* segment, in program order                                               *)
(* ---------------------------------------------------------------------- *)

\* ErrorCall without its error mark
ErrorCallUnmarked ==
  [ stage |-> "complete", is_completed |-> TRUE, error |-> FALSE,
    reasoning |-> "None", raw |-> FALSE ]

\* the except branch of send_message: stage "complete", {"error": True}
ErrorCall ==
  [ stage |-> "complete", is_completed |-> TRUE, error |-> TRUE,
    reasoning |-> "None", raw |-> FALSE ]

\* session_queues[queue_id].put(query_update)
RawSplitCall ==
  [ stage |-> "splitting_query", is_completed |-> TRUE, error |-> FALSE,
    reasoning |-> "None", raw |-> TRUE ]

\* the first update, sent right after the queue is created
InitialCalls == << Call("analyzing_query", FALSE) >>

\* retrieval_decision.get("reasoning", ""): the decider's own words
DeciderReasoning == "reasoning of the decider"

\* retrieval_reasoning = "User explicitly disabled retrieval"
DisabledReasoning == "User explicitly disabled retrieval"

\* the update that closes the deciding_retrieval stage: with the decider,
\* details carries should_retrieve, confidence, reasoning and queue_id;
\* without it, details is {"retrievalNeeded": False}
DecidedCall(use_retrieval) ==
  IF use_retrieval # "False"
    THEN [ Call("deciding_retrieval", TRUE)
             EXCEPT !.reasoning = DeciderReasoning ]
    ELSE Call("deciding_retrieval", TRUE)

\* the retrieval decision: use_retrieval is the request's option
DecisionCalls(use_retrieval) ==
  IF use_retrieval # "False"
    THEN << Call("deciding_retrieval", FALSE) >>
         \o TimerEnter(OpRetrievalDecision)
         \o TimerExit(OpRetrievalDecision)
         \o << DecidedCall(use_retrieval) >>
    ELSE << DecidedCall(use_retrieval) >>

\* the query split and the event that carries the sub-queries
SplitCalls ==
  << Call("splitting_query", FALSE) >>
  \o TimerEnter(OpQuerySplitting) \o TimerExit(OpQuerySplitting)
  \o << RawSplitCall >>

\* from "Searching through your documents..." to the retrieval await
RetrieveStartCalls ==
  << Call("retrieving_documents", FALSE) >>
  \o Tracker("retrieving_documents")
  \o TimerEnter(OpRetrieveChunks)
  \o Repeat(Tracker("retrieving_documents"), 2)

\* from the retrieval await to the end of the retrieving_documents stage
RetrieveDoneCalls ==
  Repeat(Tracker("retrieving_documents"), 5)
  \o TimerExit(OpRetrieveChunks)
  \o << Call("retrieving_documents", TRUE) >>

\* from "Generating a comprehensive answer..." to the generation await
GenerateStartCalls ==
  << Call("generating_answer", FALSE) >>
  \o Tracker("generating_answer")
  \o TimerEnter(OpGenerateAnswer)
  \o Repeat(Tracker("generating_answer"), 4)

\* generation_background_updates
BackgroundCalls == Repeat(Tracker("generating_answer"), BackgroundUpdates)

\* from the generation await to "Answer generation complete!"
GenerateDoneCalls ==
  Repeat(Tracker("generating_answer"), 3)
  \o TimerExit(OpGenerateAnswer)
  \o << Call("generating_answer", TRUE) >>

\* the branch without retrieval, up to asyncio.to_thread
DirectStartCalls ==
  << Call("generating_answer", FALSE) >> \o TimerEnter(OpGenerateAnswer)

\* the branch without retrieval, after asyncio.to_thread
DirectDoneCalls == TimerExit(OpGenerateAnswer)

\* "Send completion update"
CompleteCalls == << Call("complete", TRUE) >>

\* save_message, the completion update and the construction of the
\* response; outcome says which of them raises, if any
FinishCalls(outcome) ==
  IF outcome = "save_fails" THEN << ErrorCall >>
  ELSE IF outcome = "return_fails" THEN CompleteCalls \o << ErrorCall >>
  ELSE CompleteCalls

\* the events a sequence of calls puts in the queue, numbered from base+1
Events(calls, base) ==
  [ i \in 1..Len(calls) |->
      IF calls[i].raw THEN QueryUpdate(base + i)
      ELSE Update(calls[i].stage, calls[i].is_completed, calls[i].error,
                  calls[i].reasoning, base + i) ]

\* Put on a queue that takes no more than a few items and drops the rest
PutBounded(queue, events) ==
  IF Len(queue) + Len(events) > Len(Stages) THEN queue ELSE queue \o events

\* queue.put_nowait / queue.put of the unbounded queue.Queue, for a
\* sequence of events
Put(queue, events) == queue \o events

DigitTokens == << "0", "1", "2", "3", "4", "5", "6", "7", "8", "9" >>

\* str(n) of a natural number
RECURSIVE Decimal(_)
Decimal(n) ==
  IF n < 10 THEN << DigitTokens[n + 1] >>
  ELSE Decimal(n \div 10) \o << DigitTokens[(n % 10) + 1] >>

\* citation_id = f"[{i+1}]" for the index i of enumerate
CitationId(i) == << "[" >> \o Decimal(i + 1) \o << "]" >>

(* ---------------------------------------------------------------------- *)
(* State                                                                   *)
(* ---------------------------------------------------------------------- *)

VARIABLES
  message,         \* the SendMessageRequest: stream_processing, use_retrieval
  pc,              \* where send_message stands
  background,      \* the generation_background_updates task
  http,            \* the answer of send_message: "pending", "200", "500"
  session_queues,  \* the keys of the registry session_queues
  q,               \* the content of the queue.Queue created for QueueId
  published,       \* every event put in q so far, in order (history)
  kind,            \* per subscriber: "stream" or "realtime" endpoint
  spc,             \* per subscriber: where its generator stands ("absent":
                   \* the connection is never opened)
  consumer,        \* per subscriber: state of its queue_consumer task
  aq,              \* per subscriber: content of its asyncio_queue
  cur,             \* per subscriber: the local variable data
  heartbeats,      \* heartbeats the queue_consumer tasks have injected
  timeouts,        \* wait_for timeouts the streams have taken
  delivered,       \* per subscriber: the frames yielded to the client
  attachedAt,      \* per subscriber: "late" when the complete event had been
                   \* published before the route handler accepted the
                   \* connection, else "early" (history)
  invoked,         \* the collaborators send_message has called (history)
  citations,       \* the local variable citations of send_message
  retrieved_chunks,\* the local variable retrieved_chunks of send_message
  chat_messages,   \* the messages of the request stored by save_message, in
                   \* order, each with the number of events published before
                   \* it was stored (at, history)
  registered,      \* several requests: session_queues, token -> queue object
  queues,          \* several requests: content of every queue object
  sent,            \* several requests: per token, the publish calls made
  handle,          \* several requests: per token, the queue object its
                   \* stream has captured (NoObject: no stream yet)
  received,        \* several requests: per token, the events its stream
                   \* has yielded
  call             \* a single function under evaluation: its arguments,
                   \* then its result

pipeVars ==
  << message, pc, background, http, invoked, citations, retrieved_chunks,
     chat_messages >>
busVars == << session_queues, q, published >>
subVars ==
  << kind, spc, consumer, aq, cur, heartbeats, timeouts, delivered,
     attachedAt >>
\* the state of the specifications that look at several requests or at one
\* function; the specification of the single request leaves it alone
singleVars == << pipeVars, busVars, subVars >>
manyVars == << registered, queues, sent, handle, received >>
unitVars == << manyVars, call >>
vars == << singleVars, unitVars >>

\* no value (Python's None)
None == [ type |-> "none" ]

\* a local variable that is not bound yet, and one bound to a list
Unbound == [ bound |-> FALSE, list |-> << >> ]
Bound(list) == [ bound |-> TRUE, list |-> list ]

\* no object (a queue object is a positive number)
NoObject == 0

\* Python's dict: {}, d[k] = v and del d[k]
EmptyDict == [ k \in {} |-> NoObject ]

DictSet(d, k, v) ==
  [ x \in DOMAIN d \cup {k} |-> IF x = k THEN v ELSE d[x] ]

\* del d[k] taken for d.clear()
DictClear(d, k) == EmptyDict

DictDel(d, k) == [ x \in DOMAIN d \ {k} |-> d[x] ]

\* no request but the modelled one is in flight; no function is evaluated
NoRequests ==
  /\ registered = EmptyDict
  /\ queues = << >>
  /\ sent = EmptyDict
  /\ handle = EmptyDict
  /\ received = EmptyDict

Quiet == NoRequests /\ call = None

Init ==
  /\ Quiet
  /\ invoked = {}
  /\ citations = << >>
  /\ retrieved_chunks = Unbound
  /\ chat_messages = << >>
  /\ message \in [ stream_processing : BOOLEAN,
                   use_retrieval : {"None", "True", "False"} ]
  /\ pc = "start"
  /\ background = "none"
  /\ http = "pending"
  /\ session_queues = {}
  /\ q = << >>
  /\ published = << >>
  /\ kind = [ s \in Subs |-> "none" ]
  /\ spc \in { f \in [ Subs -> {"idle", "absent"} ] :
                 /\ f[First] = "idle"
                 /\ \A s \in Subs \ {First} :
                      f[s] = "idle" => message.use_retrieval = "False" }
  /\ consumer = [ s \in Subs |-> "none" ]
  /\ aq = [ s \in Subs |-> << >> ]
  /\ cur = [ s \in Subs |-> None ]
  /\ heartbeats = 0
  /\ timeouts = 0
  /\ delivered = [ s \in Subs |-> << >> ]
  /\ attachedAt = [ s \in Subs |-> "early" ]

(* ---------------------------------------------------------------------- *)
(* send_message                                                            *)
(* ---------------------------------------------------------------------- *)

\* Publish on the queue object itself, registered or not
PublishUnguarded(calls) ==
  IF message.stream_processing /\ pc # "start"
    THEN /\ q' = Put(q, Events(calls, Len(published)))
         /\ published' = published \o Events(calls, Len(published))
    ELSE UNCHANGED << q, published >>

\* "if message.stream_processing and queue_id in session_queues:" around
\* every update: the calls are made when the queue is still registered
Publish(calls) ==
  IF message.stream_processing /\ QueueId \in session_queues
    THEN /\ q' = Put(q, Events(calls, Len(published)))
         /\ published' = published \o Events(calls, Len(published))
    ELSE UNCHANGED << q, published >>

\* the queue of the request exists and is still registered
Registered == message.stream_processing /\ QueueId \in session_queues

\* chat_messages[message_id] = message of save_message
Saved(role) == [ role |-> role, at |-> Len(published) ]

\* the session is unknown or the user message cannot be saved: the
\* exception is raised before queue_id exists, nothing is registered
SendMessageRejected ==
  /\ pc = "start"
  /\ pc' = "raised"
  /\ http' = "500"
  /\ UNCHANGED << unitVars, message, background, invoked, citations,
                  retrieved_chunks, chat_messages, busVars, subVars >>

\* from the entry of send_message to its first suspension: the queue is
\* created, the retrieval decision is taken (should_retrieve is what the
\* decider answers) and, with retrieval, the query is split
SendMessageStart ==
  /\ pc = "start"
  /\ \E should_retrieve \in BOOLEAN :
       LET use_retrieval ==
             IF message.use_retrieval # "False" THEN should_retrieve
             ELSE FALSE
           calls ==
             InitialCalls \o DecisionCalls(message.use_retrieval)
             \o ( IF use_retrieval THEN SplitCalls \o RetrieveStartCalls
                  ELSE DirectStartCalls )
       IN  /\ IF message.stream_processing
                THEN /\ session_queues' = session_queues \cup {QueueId}
                     /\ q' = Put(<< >>, Events(calls, 0))
                     /\ published' = Events(calls, 0)
                ELSE UNCHANGED busVars
           /\ pc' = IF use_retrieval THEN "retrieve" ELSE "direct"
           /\ invoked' =
                ( IF message.use_retrieval # "False"
                    THEN {"should_use_retrieval"} ELSE {} )
                \cup ( IF use_retrieval
                         THEN {"split_query_into_subqueries",
                               "retrieve_relevant_chunks_for_multiple_queries"}
                         ELSE {"chat.completions.create"} )
  /\ citations' = << >>
  /\ chat_messages' = << Saved("user") >>
  /\ UNCHANGED << unitVars, message, background, http, retrieved_chunks,
                  subVars >>

\* what retrieve_relevant_chunks_for_multiple_queries may return to
\* send_message: no chunk, or some
Retrievable == { << >>, << "c1" >> }

\* retrieve_relevant_chunks_for_multiple_queries returns: the rest of the
\* retrieval stage and the generation stage up to its await
RetrieveReturns ==
  /\ pc = "retrieve"
  /\ \E chunks \in Retrievable : retrieved_chunks' = Bound(chunks)
  /\ Publish(RetrieveDoneCalls \o GenerateStartCalls)
  /\ pc' = "generate"
  /\ background' = "scheduled"
  /\ invoked' = invoked \cup {"generate_answer_async"}
  /\ UNCHANGED << unitVars, message, http, citations, chat_messages,
                  session_queues, subVars >>

\* an exception leaves the Timer block of operation (Timer.__exit__ runs)
\* and reaches the except branch of send_message
Raise(operation) ==
  /\ Publish(TimerExit(operation) \o << ErrorCall >>)
  /\ pc' = "raised"
  /\ http' = "500"
  /\ UNCHANGED << unitVars, message, background, invoked, citations,
                  retrieved_chunks, chat_messages, session_queues,
                  subVars >>

RetrieveFails ==
  /\ pc = "retrieve"
  /\ Raise(OpRetrieveChunks)

\* a background task that is never done
BackgroundNeverDone ==
  /\ pc = "generate"
  /\ background = "scheduled"
  /\ UNCHANGED vars

\* the task generation_background_updates runs once send_message is
\* suspended in generate_answer_async; it has no await of its own
GenerationBackgroundUpdates ==
  /\ pc = "generate"
  /\ background = "scheduled"
  /\ IF QueueId \in session_queues
       THEN /\ q' = Put(q, Events(BackgroundCalls, Len(published)))
            /\ published' = published \o Events(BackgroundCalls, Len(published))
       ELSE UNCHANGED << q, published >>
  /\ background' = "done"
  /\ UNCHANGED << unitVars, message, pc, http, invoked, citations,
                  retrieved_chunks, chat_messages, session_queues,
                  subVars >>

\* a citation whatever was retrieved
OneCitation == << CitationId(0) >>

\* citations = result["citations"]: generate_answer_async returns every
\* retrieved chunk as a citation, marker [1] onwards
ResultCitations ==
  SubSeq([ i \in DOMAIN retrieved_chunks.list |-> CitationId(i - 1) ],
         1, Len(retrieved_chunks.list))

\* the tail of send_message: save_message, completion update, response
\* (ai_message carries citations as the branch has left it)
Finish(calls) ==
  \E outcome \in {"ok", "save_fails", "return_fails"} :
    /\ Publish(calls \o FinishCalls(outcome))
    /\ chat_messages' =
         IF outcome = "save_fails" THEN chat_messages
         ELSE Append(chat_messages,
                     [ Saved("assistant") EXCEPT
                         !.at = IF Registered
                                  THEN Len(published) + Len(calls)
                                  ELSE Len(published) ])
    /\ pc' = IF outcome = "ok" THEN "returned" ELSE "raised"
    /\ http' = IF outcome = "ok" THEN "200" ELSE "500"
    /\ UNCHANGED << unitVars, message, background, invoked,
                    retrieved_chunks, session_queues, subVars >>

GenerateReturns ==
  /\ pc = "generate"
  /\ background = "done"
  /\ citations' = ResultCitations
  /\ Finish(GenerateDoneCalls)

GenerateFails ==
  /\ pc = "generate"
  /\ background = "done"
  /\ Raise(OpGenerateAnswer)

\* the completion call of asyncio.to_thread returns
DirectReturns ==
  /\ pc = "direct"
  /\ UNCHANGED citations
  /\ Finish(DirectDoneCalls)

DirectFails ==
  /\ pc = "direct"
  /\ Raise(OpGenerateAnswer)

Pipeline ==
  \/ SendMessageRejected
  \/ SendMessageStart
  \/ RetrieveReturns
  \/ RetrieveFails
  \/ GenerationBackgroundUpdates
  \/ GenerateReturns
  \/ GenerateFails
  \/ DirectReturns
  \/ DirectFails

(* ---------------------------------------------------------------------- *)
(* The subscribe endpoints: stream_processing_updates / stream_events and  *)
(* realtime_stream_updates / realtime_stream_events                        *)
(* ---------------------------------------------------------------------- *)

Kinds == {"stream", "realtime"}

\* the frames a generator yields besides the events of the queue (the
\* flush comments carry nothing and are left out)
Frame(type) == [ type |-> type ]

\* the test frame that follows the creation of the consumer task
ReadyFrame(k) == IF k = "realtime" THEN Frame("test") ELSE Frame("stream_ready")

\* the frame yielded when wait_for times out
TimeoutFrame(k) ==
  IF k = "realtime" THEN Frame("heartbeat") ELSE Frame("keepalive")

\* "Check for complete event"
IsComplete(data) ==
  data.type = "processing_update" /\ data.stage = "complete"

\* consumer_task.cancel(): a task that has not finished is cancelled
Cancel(c) == IF c \in {"created", "polling"} THEN "cancelled" ELSE c

\* what is left of the registry when the generator of endpoint k ends
\* without a GeneratorExit: realtime_stream_events deletes the entry in its
\* finally block, stream_events deletes it only under "except GeneratorExit"
RegistryAfterEnd(k, registry) ==
  IF k = "realtime" THEN registry \ {QueueId} ELSE registry

\* what is left of the registry after a GeneratorExit: stream_events
\* deletes the entry in its except branch, realtime_stream_events in its
\* finally block
RegistryAfterExit(k, registry) == registry \ {QueueId}

\* the route handler of either endpoint: a 'Stream not found' frame when
\* the queue id is not registered, else a StreamingResponse over the
\* generator of the endpoint
Subscribe(s) ==
  /\ spc[s] = "idle"
  /\ IF QueueId \in session_queues
       THEN /\ \E k \in Kinds : kind' = [kind EXCEPT ![s] = k]
            /\ spc' = [spc EXCEPT ![s] = "accepted"]
            /\ UNCHANGED delivered
       ELSE /\ spc' = [spc EXCEPT ![s] = "rejected"]
            /\ delivered' = [delivered EXCEPT ![s] = Append(@, Frame("error"))]
            /\ UNCHANGED kind
  /\ attachedAt' = [attachedAt EXCEPT ![s] =
       IF \E i \in DOMAIN published : IsComplete(published[i])
         THEN "late" ELSE "early"]
  /\ UNCHANGED << unitVars, pipeVars, busVars, consumer, aq, cur, heartbeats, timeouts >>

\* the generator starts: it looks the queue up again and yields
\* connection_established
Start(s) ==
  /\ spc[s] = "accepted"
  /\ IF QueueId \in session_queues
       THEN /\ spc' = [spc EXCEPT ![s] = "established"]
            /\ delivered' = [delivered EXCEPT
                               ![s] = Append(@, Frame("connection_established"))]
       ELSE /\ spc' = [spc EXCEPT ![s] = "ended"]
            /\ delivered' = [delivered EXCEPT ![s] =
                 IF kind[s] = "realtime" THEN Append(@, Frame("error")) ELSE @]
  /\ UNCHANGED << unitVars, pipeVars, busVars, kind, consumer, aq, cur, heartbeats,
                  timeouts, attachedAt >>

\* asyncio.create_task(queue_consumer()) and the test frame
StartConsumer(s) ==
  /\ spc[s] = "established"
  /\ consumer' = [consumer EXCEPT ![s] = "created"]
  /\ delivered' = [delivered EXCEPT ![s] = Append(@, ReadyFrame(kind[s]))]
  /\ spc' = [spc EXCEPT ![s] = "ready"]
  /\ UNCHANGED << unitVars, pipeVars, busVars, kind, aq, cur, heartbeats, timeouts,
                  attachedAt >>

\* the generator is in wait_for: it has entered its delivery loop from
\* the test frame, or has come back to it from the yield of an item that
\* is not a complete event (nothing else happens on that way), or from the
\* check that follows a timeout
Waiting(s) ==
  \/ spc[s] \in {"ready", "waiting"}
  \/ spc[s] = "sent" /\ ~IsComplete(cur[s])

\* TransferExisting that throws the waiting items away
TransferExistingDropped(items) == << >>

\* "Transfer any existing items": what a new queue_consumer moves from the
\* queue.Queue into the asyncio queue before it starts to poll
TransferExisting(items) == items

\* Transfer that takes the newest item first
RECURSIVE TransferReversed(_)
TransferReversed(items) ==
  IF items = << >> THEN << >>
  ELSE Append(TransferReversed(Tail(items)), Head(items))

\* the items one pass of the polling loop moves from the queue.Queue into
\* the asyncio queue: get_nowait until queue.Empty, oldest first
Transfer(items) == items

\* one run of queue_consumer up to its next asyncio.sleep: a new task
\* first moves the existing items; the polling loop runs while the queue id
\* is registered, moves every item it finds and, when the queue is empty
\* and the clock says so (heartbeat), puts a heartbeat
ConsumerRun(s) ==
  /\ consumer[s] \in {"created", "polling"}
  /\ LET moved ==
           IF consumer[s] = "created" THEN TransferExisting(q)
           ELSE IF QueueId \in session_queues THEN Transfer(q)
           ELSE << >>
     IN
     IF QueueId \in session_queues
       THEN \E heartbeat \in BOOLEAN :
              /\ heartbeat => heartbeats < MaxHeartbeats
              /\ aq' = [aq EXCEPT ![s] =
                    @ \o moved \o
                    (IF heartbeat THEN << Frame("heartbeat") >> ELSE << >>)]
              /\ heartbeats' = IF heartbeat THEN heartbeats + 1 ELSE heartbeats
              /\ q' = << >>
              /\ consumer' = [consumer EXCEPT ![s] = "polling"]
       ELSE /\ aq' = [aq EXCEPT ![s] = @ \o moved]
            /\ q' = IF consumer[s] = "created" THEN << >> ELSE q
            /\ consumer' = [consumer EXCEPT ![s] = "exited"]
            /\ UNCHANGED heartbeats
  /\ UNCHANGED << unitVars, pipeVars, session_queues, published, kind, spc, cur,
                  timeouts, delivered, attachedAt >>

\* wait_for returns an item: it is yielded to the client
Deliver(s) ==
  /\ Waiting(s)
  /\ aq[s] # << >>
  /\ cur' = [cur EXCEPT ![s] = Head(aq[s])]
  /\ aq' = [aq EXCEPT ![s] = Tail(@)]
  /\ delivered' = [delivered EXCEPT ![s] = Append(@, Head(aq[s]))]
  /\ spc' = [spc EXCEPT ![s] = "sent"]
  /\ UNCHANGED << unitVars, pipeVars, busVars, kind, consumer, heartbeats, timeouts,
                  attachedAt >>

\* wait_for times out on the empty asyncio queue: a heartbeat (keepalive)
\* frame is yielded
Timeout(s) ==
  /\ Waiting(s)
  /\ aq[s] = << >>
  /\ timeouts < MaxTimeouts \/ QueueId \notin session_queues
  /\ timeouts' = IF timeouts < MaxTimeouts THEN timeouts + 1 ELSE timeouts
  /\ delivered' = [delivered EXCEPT ![s] = Append(@, TimeoutFrame(kind[s]))]
  /\ spc' = [spc EXCEPT ![s] = "timeout"]
  /\ UNCHANGED << unitVars, pipeVars, busVars, kind, consumer, aq, cur, heartbeats,
                  attachedAt >>

\* after the yield of a complete event the generator yields the closing
\* frame
AfterSent(s) ==
  /\ spc[s] = "sent"
  /\ IsComplete(cur[s])
  /\ delivered' = [delivered EXCEPT ![s] = Append(@, Frame("closing"))]
  /\ spc' = [spc EXCEPT ![s] = "closing"]
  /\ UNCHANGED << unitVars, pipeVars, busVars, kind, consumer, aq, cur, heartbeats,
                  timeouts, attachedAt >>

\* the generator leaves its loop: the consumer task is cancelled and the
\* generator ends
End(s) ==
  /\ consumer' = [consumer EXCEPT ![s] = Cancel(@)]
  /\ session_queues' = RegistryAfterEnd(kind[s], session_queues)
  /\ spc' = [spc EXCEPT ![s] = "ended"]
  /\ UNCHANGED << unitVars, pipeVars, q, published, kind, aq, cur, heartbeats,
                  timeouts, delivered, attachedAt >>

\* break after the closing frame
AfterClosing(s) ==
  /\ spc[s] = "closing"
  /\ End(s)

\* after the yield of a timeout frame: "Check if we should exit"
AfterTimeout(s) ==
  /\ spc[s] = "timeout"
  /\ IF QueueId \notin session_queues
       THEN End(s)
       ELSE /\ spc' = [spc EXCEPT ![s] = "waiting"]
            /\ UNCHANGED << unitVars, pipeVars, busVars, kind, consumer, aq, cur,
                            heartbeats, timeouts, delivered, attachedAt >>

\* the generator states that are suspended at a yield inside the
\* try/finally that cancels the consumer task ("waiting" is no yield)
InLoop == {"sent", "timeout", "closing"}

\* the generator states that are suspended at a yield
AtYield == {"established", "ready"} \cup InLoop

\* the client goes away: GeneratorExit is raised at the yield where the
\* generator is suspended
Disconnect(s) ==
  /\ spc[s] \in AtYield
  /\ consumer' = [consumer EXCEPT
                    ![s] = IF spc[s] \in InLoop THEN Cancel(@) ELSE @]
  /\ session_queues' = RegistryAfterExit(kind[s], session_queues)
  /\ spc' = [spc EXCEPT ![s] = "disconnected"]
  /\ UNCHANGED << unitVars, pipeVars, q, published, kind, aq, cur, heartbeats,
                  timeouts, delivered, attachedAt >>

Stream(s) ==
  \/ Subscribe(s)
  \/ Start(s)
  \/ StartConsumer(s)
  \/ Deliver(s)
  \/ Timeout(s)
  \/ AfterSent(s)
  \/ AfterClosing(s)
  \/ AfterTimeout(s)

Next ==
  \/ Pipeline
  \/ \E s \in Subs : Stream(s)
  \/ \E s \in Subs : ConsumerRun(s)
  \/ \E s \in Subs : Disconnect(s)

Spec == Init /\ [][Next]_vars

\* every external call of the pipeline returns or fails, the event loop
\* runs every task that is ready; a client is free to stay or to leave
Fairness ==
  /\ WF_vars(Pipeline)
  /\ \A s \in Subs : WF_vars(Stream(s) /\ spc[s] # "idle")
  /\ \A s \in Subs : WF_vars(ConsumerRun(s))

\* the runs in which one connection is opened at most
FairInit == Init /\ \A s \in Subs \ {First} : spc[s] = "absent"

FairSpec == FairInit /\ [][Next]_vars /\ Fairness

(* ---------------------------------------------------------------------- *)
(* Several requests in flight: the registry session_queues as a dict from  *)
(* queue id to queue object.  What one request does between two publish    *)
(* calls is left out; its subscriber is one realtime_stream_events         *)
(* generator with its queue_consumer.                                      *)
(* ---------------------------------------------------------------------- *)

\* the single request of Spec has not started and opens no connection
Parked ==
  /\ message = [ stream_processing |-> FALSE, use_retrieval |-> "None" ]
  /\ pc = "start"
  /\ background = "none"
  /\ http = "pending"
  /\ invoked = {}
  /\ citations = << >>
  /\ retrieved_chunks = Unbound
  /\ chat_messages = << >>
  /\ session_queues = {}
  /\ q = << >>
  /\ published = << >>
  /\ kind = [ s \in Subs |-> "none" ]
  /\ spc = [ s \in Subs |-> "absent" ]
  /\ consumer = [ s \in Subs |-> "none" ]
  /\ aq = [ s \in Subs |-> << >> ]
  /\ cur = [ s \in Subs |-> None ]
  /\ heartbeats = 0
  /\ timeouts = 0
  /\ delivered = [ s \in Subs |-> << >> ]
  /\ attachedAt = [ s \in Subs |-> "early" ]

ManyInit ==
  /\ Parked
  /\ registered = EmptyDict
  /\ queues = << >>
  /\ sent = [ t \in Tokens |-> 0 ]
  /\ handle = [ t \in Tokens |-> NoObject ]
  /\ received = [ t \in Tokens |-> << >> ]
  /\ call = None

\* the n-th update published under token t (token and n are the model's
\* name for the event)
TokenUpdate(t, n) == [ type |-> "processing_update", token |-> t, n |-> n ]

\* session_queues[queue_id] = queue.Queue() and the first update
Register(t) ==
  /\ sent[t] = 0
  /\ queues' = Append(queues, Put(<< >>, << TokenUpdate(t, 1) >>))
  /\ registered' = DictSet(registered, t, Len(queues) + 1)
  /\ sent' = [sent EXCEPT ![t] = 1]
  /\ UNCHANGED << handle, received, singleVars, call >>

\* send_realtime_update(session_queues.get(queue_id), ...): nothing is
\* done when the entry is gone
PublishTo(t) ==
  /\ sent[t] > 0
  /\ sent[t] < MaxPublished
  /\ sent' = [sent EXCEPT ![t] = @ + 1]
  /\ IF t \in DOMAIN registered
       THEN queues' = [queues EXCEPT ![registered[t]] =
                         Put(@, << TokenUpdate(t, sent[t] + 1) >>)]
       ELSE UNCHANGED queues
  /\ UNCHANGED << registered, handle, received, singleVars, call >>

\* realtime_stream_events(queue_id): q = session_queues[queue_id]
SubscribeTo(t) ==
  /\ handle[t] = NoObject
  /\ t \in DOMAIN registered
  /\ handle' = [handle EXCEPT ![t] = registered[t]]
  /\ UNCHANGED << registered, queues, sent, received, singleVars, call >>

\* q.get_nowait() of the queue_consumer and the yield of the item
Take(t) ==
  /\ handle[t] # NoObject
  /\ t \in DOMAIN registered
  /\ queues[handle[t]] # << >>
  /\ received' = [received EXCEPT ![t] = Append(@, Head(queues[handle[t]]))]
  /\ queues' = [queues EXCEPT ![handle[t]] = Tail(@)]
  /\ UNCHANGED << registered, sent, handle, singleVars, call >>

\* the finally block of the generator: del session_queues[queue_id]
CloseToken(t) ==
  /\ handle[t] # NoObject
  /\ t \in DOMAIN registered
  /\ registered' = DictDel(registered, t)
  /\ UNCHANGED << queues, sent, handle, received, singleVars, call >>

\* the operations on token t
OnToken(t) ==
  \/ Register(t)
  \/ PublishTo(t)
  \/ SubscribeTo(t)
  \/ Take(t)
  \/ CloseToken(t)

ManyNext == \E t \in Tokens : OnToken(t)

ManySpec == ManyInit /\ [][ManyNext]_vars

\* a further send_message whose caller supplies the token t of a request
\* in flight: session_queues[queue_id] = queue.Queue() binds the token
\* to a new queue object, and the first update goes into that object
RegisterAgain(t) ==
  /\ t \in DOMAIN registered
  /\ sent[t] < MaxPublished
  /\ queues' = Append(queues, Put(<< >>, << TokenUpdate(t, sent[t] + 1) >>))
  /\ registered' = DictSet(registered, t, Len(queues) + 1)
  /\ sent' = [sent EXCEPT ![t] = @ + 1]
  /\ UNCHANGED << handle, received, singleVars, call >>

\* the requests in flight, where a caller may supply a token again
AgainSpec ==
  ManyInit /\ [][\E t \in Tokens : OnToken(t) \/ RegisterAgain(t)]_vars

(* ---------------------------------------------------------------------- *)
(* split_query_into_subqueries (app/rag/query_optimizer.py).  A string is  *)
(* the sequence of its words and blanks; a value decoded from JSON is a    *)
(* record of its type t and its content v.                                 *)
(* ---------------------------------------------------------------------- *)

JStr(s) == [ t |-> "str", v |-> s ]
JNum == [ t |-> "num", v |-> << >> ]
JNull == [ t |-> "null", v |-> << >> ]

\* str.lower(), word by word
LowerWord(w) ==
  IF w = "Q" THEN "q"
  ELSE IF w = "Region" THEN "region"
  ELSE IF w = "What" THEN "what"
  ELSE IF w = "True" THEN "true"
  ELSE IF w = "Information about " THEN "information about "
  ELSE w

Lower(s) == [ i \in DOMAIN s |-> LowerWord(s[i]) ]

\* str.strip()
RECURSIVE LStrip(_)
LStrip(s) == IF s # << >> /\ Head(s) = " " THEN LStrip(Tail(s)) ELSE s

RECURSIVE RStrip(_)
RStrip(s) ==
  IF s # << >> /\ s[Len(s)] = " " THEN RStrip(SubSeq(s, 1, Len(s) - 1))
  ELSE s

Strip(s) == RStrip(LStrip(s))

\* len(query.split())
Words(s) ==
  Cardinality({ i \in DOMAIN s : s[i] # " " /\ (i = 1 \/ s[i - 1] = " ") })

\* bool(x) of a decoded value
Truthy(x) == IF x.t = "str" THEN x.v # << >> ELSE x.t = "num"

\* next((msg["content"] for msg in reversed(chat_history)
\*       if msg["role"] == "user"), None); None is the empty string here,
\* the code only tests it for truth
LastUserQuery(chat_history) ==
  LET users == { i \in DOMAIN chat_history : chat_history[i].role = "user" }
  IN  IF users = {} THEN << >>
      ELSE chat_history[CHOOSE i \in users : \A j \in users : j <= i].content

\* what a piece of the function evaluates to: an exception on its way to
\* the next handler (raised), or a list of strings
Raised == [ raised |-> TRUE, value |-> << >> ]
Value(list) == [ raised |-> FALSE, value |-> list ]

\* the key of the seen set taken as sq itself
SeenKeyExact(sq) == sq

\* seen.add(sq.lower())
SeenKey(sq) == Lower(sq)

\* "Remove duplicates while preserving order": the loop from item i on;
\* sq.lower() of a true value that is no string raises AttributeError
RECURSIVE UniqueFrom(_, _, _, _)
UniqueFrom(sub_queries, i, seen, unique_sub_queries) ==
  IF i > Len(sub_queries) THEN Value(unique_sub_queries)
  ELSE LET sq == sub_queries[i]
       IN  IF ~Truthy(sq)
             THEN UniqueFrom(sub_queries, i + 1, seen, unique_sub_queries)
           ELSE IF sq.t # "str" THEN Raised
           ELSE IF SeenKey(sq.v) \in seen
             THEN UniqueFrom(sub_queries, i + 1, seen, unique_sub_queries)
           ELSE UniqueFrom(sub_queries, i + 1, seen \cup {SeenKey(sq.v)},
                           Append(unique_sub_queries, sq.v))

\* sub-queries made of the follow-up question alone
ContextualWithoutHistory(query, last_user_query) ==
  << JStr(query), JStr(<< "Information about " >> \o query) >>

\* the three contextual sub-queries of a short follow-up question
Contextual(query, last_user_query) ==
  IF Contains(<< "region" >>, Lower(query))
    THEN << JStr(last_user_query \o << " by geographic region" >>),
            JStr(last_user_query \o << " by region breakdown" >>),
            JStr(<< "regional data for " >> \o last_user_query) >>
  ELSE IF Contains(<< "product" >>, Lower(query))
    THEN << JStr(last_user_query \o << " by product category" >>),
            JStr(last_user_query \o << " product breakdown" >>),
            JStr(<< "product-specific data for " >> \o last_user_query) >>
  ELSE IF Contains(<< "year" >>, Lower(query))
          \/ Contains(<< "annual" >>, Lower(query))
    THEN << JStr(last_user_query \o << " annual trends" >>),
            JStr(last_user_query \o << " year over year" >>),
            JStr(<< "yearly comparison of " >> \o last_user_query) >>
  ELSE << JStr(last_user_query \o << " " >> \o query),
          JStr(query \o << " in context of " >> \o last_user_query),
          JStr(<< "information about " >> \o last_user_query
               \o << " regarding " >> \o query) >>

\* "Ensure we have at least 2 sub-queries" and what follows it, for a
\* non-empty list sub_queries
PostProcess(query, chat_history, sub_queries) ==
  LET is_short_query == Words(query) <= 5
      has_chat_history == Len(chat_history) > 0
      last_user_query == LastUserQuery(chat_history)
      unique(list) ==
        LET u == UniqueFrom(list, 1, {}, << >>)
        IN  IF u.raised THEN Raised
            ELSE IF u.value = << >> THEN Value(<< query >>)
            ELSE u
  IN  IF Len(sub_queries) >= 2 THEN unique(sub_queries)
      ELSE IF is_short_query /\ has_chat_history
        THEN IF last_user_query # << >>
               THEN unique(Contextual(query, last_user_query))
               ELSE unique(sub_queries)
      ELSE IF sub_queries[1].t # "str" THEN Raised
      ELSE IF Strip(Lower(sub_queries[1].v)) = Strip(Lower(query))
        THEN unique(Append(sub_queries,
                           JStr(<< "Information about " >> \o Strip(query))))
      ELSE unique(sub_queries)

\* [line.strip() for line in response_text.split('\n') if line.strip()]
RECURSIVE ParseLines(_)
ParseLines(lines) ==
  IF lines = << >> THEN << >>
  ELSE IF Strip(Head(lines)) = << >> THEN ParseLines(Tail(lines))
  ELSE << JStr(Strip(Head(lines))) >> \o ParseLines(Tail(lines))

\* the shapes of the first answer for which json.loads raises or the call
\* itself throws
Unparsed == {"throws", "not_json"}

\* the body of the outer try block.  first is the answer to the call with
\* response_format json_object: its shape and, where the shape holds a
\* list, the items of the list; second is the answer to the plain call
SplitBody(query, chat_history, first, second) ==
  IF first.shape \in Unparsed /\ second.kind = "throws"
    THEN Value(<< query >>)
  ELSE IF first.shape \in {"number", "null"} THEN Raised
  ELSE
    LET is_list == first.shape # "sub_queries_str"
        sub_queries ==
          IF first.shape \in Unparsed THEN ParseLines(second.lines)
          ELSE IF first.shape \in {"sub_queries", "subQueries", "array"}
            THEN first.items
          ELSE << >>
    IN  IF ~is_list \/ sub_queries = << >> THEN Value(<< query >>)
        ELSE PostProcess(query, chat_history, sub_queries)

\* the outer handler taken away: the exception leaves the function
Uncaught(r, query) == r

\* "except Exception as e: ... return [query]"
Caught(r, query) == IF r.raised THEN Value(<< query >>) ELSE r

\* the calls of chat.completions.create without response_format that the
\* function makes: one in the handler of the first try block
PlainCalls(first) == IF first.shape \in Unparsed THEN 1 ELSE 0

split_query_into_subqueries(query, chat_history, first, second) ==
  Caught(SplitBody(query, chat_history, first, second), query)

\* the queries, histories and answers the function is evaluated on
Queries ==
  { << >>, << "q" >>, << "Q" >>, << " ", "q" >>, << "region" >>,
    << "Region", " ", "q" >>, << "year" >>, << "product" >>,
    << "q", " ", "q", " ", "q", " ", "q", " ", "q", " ", "q" >> }

Histories ==
  { << >>,
    << [ role |-> "user", content |-> << "p" >> ] >>,
    << [ role |-> "assistant", content |-> << "r" >> ] >>,
    << [ role |-> "user", content |-> << "p" >> ],
       [ role |-> "assistant", content |-> << "r" >> ] >> }

Items ==
  { JStr(<< "q" >>), JStr(<< "Q" >>), JStr(<< "a" >>), JStr(<< >>),
    JNum, JNull }

Lines == { << "q" >>, << "Q", " " >>, << " " >>, << "a" >> }

ListsOf(S) == UNION { [ 1..n -> S ] : n \in 0..MaxItems }

ListShapes == {"sub_queries", "subQueries", "array"}

OtherShapes == {"other_keys", "string", "sub_queries_str", "number", "null"}

\* the first answer, and the second one where the first is not parsed
Answers ==
  { a \in [ shape : ListShapes \cup OtherShapes \cup Unparsed,
            items : ListsOf(Items),
            kind : {"unused", "throws", "text"},
            lines : ListsOf(Lines) ] :
      /\ a.shape \notin ListShapes => a.items = << >>
      /\ a.shape \in Unparsed <=> a.kind # "unused"
      /\ a.kind # "text" => a.lines = << >> }

SplitInit ==
  /\ Parked
  /\ NoRequests
  /\ \E query \in Queries, chat_history \in Histories, a \in Answers :
       call = [ fn |-> "split_query_into_subqueries", state |-> "called",
                query |-> query, chat_history |-> chat_history,
                first |-> [ shape |-> a.shape, items |-> a.items ],
                second |-> [ kind |-> a.kind, lines |-> a.lines ],
                plain_calls |-> 0, ret |-> Value(<< >>) ]

SplitQuery ==
  /\ call.fn = "split_query_into_subqueries"
  /\ call.state = "called"
  /\ call' = [ call EXCEPT
                 !.state = "returned",
                 !.plain_calls = PlainCalls(call.first),
                 !.ret = split_query_into_subqueries(
                           call.query, call.chat_history, call.first,
                           call.second) ]
  /\ UNCHANGED << singleVars, manyVars >>

SplitSpec == SplitInit /\ [][SplitQuery]_vars

(* ---------------------------------------------------------------------- *)
(* Retrieval (app/rag/retriever.py).  A chunk is its chunk_id, its source  *)
(* document (metadata.source_document_id), its distance to the sub-query   *)
(* that returned it, and the position of that sub-query (from, the model's *)
(* name for the copy).                                                     *)
(* ---------------------------------------------------------------------- *)

Max(a, b) == IF a > b THEN a ELSE b

\* a sequence written as a function, as a tuple
List(f) == SubSeq(f, 1, Len(f))

\* the entries of list at the indexes keep, in the order of list
Pick(list, keep) ==
  List([ p \in 1..Cardinality(keep) |->
           list[CHOOSE i \in keep :
                  Cardinality({ j \in keep : j <= i }) = p] ])

\* list.sort(key=lambda x: x.get("distance", 1.0)): a stable sort, entry i
\* goes behind the nearer entries and the equally near ones before it
SortByDistance(list) ==
  LET ahead(i) ==
        { j \in DOMAIN list :
            \/ list[j].distance < list[i].distance
            \/ list[j].distance = list[i].distance /\ j < i }
  IN  List([ p \in DOMAIN list |->
               list[CHOOSE i \in DOMAIN list :
                      Cardinality(ahead(i)) = p - 1] ])

\* list[:n]
Prefix(list, n) == SubSeq(list, 1, Min(n, Len(list)))

\* the keys of doc_groups, in insertion order
DocKeys(results) ==
  LET first ==
        Pick(results,
             { i \in DOMAIN results :
                 \A j \in 1..(i - 1) : results[j].doc # results[i].doc })
  IN  List([ k \in DOMAIN first |-> first[k].doc ])

\* the while loop of the selection from its pass number round on: a pass
\* takes the next chunk of every group that still has one, up to top_k
RECURSIVE RoundRobin(_, _, _, _)
RoundRobin(doc_groups, top_k, final_results, round) ==
  IF Len(final_results) >= top_k
       \/ \A k \in DOMAIN doc_groups : Len(doc_groups[k]) < round
    THEN final_results
    ELSE LET left == { k \in DOMAIN doc_groups :
                         Len(doc_groups[k]) >= round }
             pass == Pick([ k \in DOMAIN doc_groups |->
                              IF k \in left THEN doc_groups[k][round]
                              ELSE None ], left)
         IN  RoundRobin(doc_groups, top_k,
                        Prefix(final_results \o pass, top_k), round + 1)

\* _post_process_results: the results as they are when there are no more
\* than top_k; else one chunk of every document in turn, nearest first,
\* until top_k chunks are taken, then the chunks taken in distance order
post_process_results(results, top_k) ==
  IF Len(results) <= top_k THEN results
  ELSE
    LET keys == DocKeys(results)
        doc_groups ==
          List([ k \in DOMAIN keys |->
                   SortByDistance(
                     SelectSeq(results, LAMBDA x : x.doc = keys[k])) ])
        final_results == RoundRobin(doc_groups, top_k, << >>, 1)
    IN  Prefix(SortByDistance(final_results), top_k)

\* every result of every sub-query, in list order
RECURSIVE ConcatAll(_)
ConcatAll(results_list) ==
  IF results_list = << >> THEN << >>
  ELSE ConcatAll(SubSeq(results_list, 1, Len(results_list) - 1))
         \o results_list[Len(results_list)]

\* "Merge results, removing duplicates": a chunk stays when no chunk
\* before it has its chunk_id
Dedupe(chunks) ==
  Pick(chunks,
       { i \in DOMAIN chunks :
           \A j \in 1..(i - 1) : chunks[j].chunk_id # chunks[i].chunk_id })

\* the merge without seen_chunk_ids
MergeKeepAll(results_list) == ConcatAll(results_list)

Merge(results_list) == Dedupe(ConcatAll(results_list))

\* dynamic_limit = min(max(top_k * 2, len(queries) * 5), 30)
PerQuery == 5
HardLimit == 30
DynamicLimit(top_k, queries) ==
  Min(Max(top_k * 2, queries * PerQuery), HardLimit)

\* results_list = await asyncio.gather(*tasks): what
\* retrieve_relevant_chunks_async returns for each sub-query, in list order
RECURSIVE Gather(_, _)
Gather(raw, top_k) ==
  IF raw = << >> THEN << >>
  ELSE Append(Gather(SubSeq(raw, 1, Len(raw) - 1), top_k),
              post_process_results(raw[Len(raw)], top_k))

\* the function without the cut at dynamic_limit
RetrieveUncapped(raw, top_k) == Merge(Gather(raw, top_k))

\* retrieve_relevant_chunks_for_multiple_queries, given what query_similar
\* answers to each sub-query (raw, one list per sub-query)
retrieve_relevant_chunks_for_multiple_queries(raw, top_k) ==
  LET results_list == Gather(raw, top_k)
      merged_results == Merge(results_list)
      dynamic_limit == DynamicLimit(top_k, Len(raw))
  IN  IF Len(merged_results) > dynamic_limit
        THEN Prefix(SortByDistance(merged_results), dynamic_limit)
        ELSE merged_results

\* top_k=10 of the call in send_message
TopK == 10

\* the source documents of the collection
Docs == << "A", "B", "C" >>

\* what query_similar answers to sub-query i: size chunks in distance
\* order (n_results = top_k * 2 at most), unique in the list.  The
\* documents alternate (pattern "interleaved") or come one after the other,
\* A nearest (pattern "blocks"); the chunks are those every sub-query
\* finds (ids "shared") or chunks only this sub-query finds (ids "own")
Raw(profile, i) ==
  [ j \in 1..profile.size |->
      LET d == IF profile.pattern = "interleaved"
                 THEN ((j - 1) % Len(Docs)) + 1
                 ELSE (((j - 1) * Len(Docs)) \div profile.size) + 1
      IN  [ chunk_id |-> << Docs[d],
                            IF profile.ids = "own" THEN i ELSE 0, j >>,
            doc |-> Docs[d],
            distance |-> 10 * j + i,
            from |-> i ] ]

\* a sub-query is answered (failure "none"), or its embedding call fails,
\* or its similarity search does
Profiles ==
  [ pattern : {"interleaved", "blocks"}, ids : {"shared", "own"},
    size : {4, 2 * TopK}, failure : {"none"} ]
  \cup
  [ pattern : {"blocks"}, ids : {"own"}, size : {0},
    failure : {"embedding", "search"} ]

\* retrieve_relevant_chunks_async raises for a sub-query: the embedder
\* catches its own failure and gives no embedding, which is answered by
\* [], while nothing catches a failure of query_similar; asyncio.gather
\* hands the exception on and the function has no handler
GatherRaises(failures) ==
  \E i \in DOMAIN failures : failures[i] = "search"

RetrieveInit ==
  /\ Parked
  /\ NoRequests
  /\ \E n \in 1..MaxQueries : \E profiles \in [ 1..n -> Profiles ] :
       call = [ fn |-> "retrieve_relevant_chunks_for_multiple_queries",
                state |-> "called",
                raw |-> [ i \in 1..n |-> Raw(profiles[i], i) ],
                failures |-> [ i \in 1..n |-> profiles[i].failure ],
                top_k |-> TopK,
                results_list |-> << >>,
                ret |-> << >> ]

RetrieveMany ==
  /\ call.fn = "retrieve_relevant_chunks_for_multiple_queries"
  /\ call.state = "called"
  /\ call' = IF GatherRaises(call.failures)
               THEN [ call EXCEPT !.state = "raised" ]
               ELSE [ call EXCEPT
                        !.state = "returned",
                        !.results_list = Gather(call.raw, call.top_k),
                        !.ret = retrieve_relevant_chunks_for_multiple_queries(
                                  call.raw, call.top_k) ]
  /\ UNCHANGED << singleVars, manyVars >>

RetrieveSpec == RetrieveInit /\ [][RetrieveMany]_vars

(* ---------------------------------------------------------------------- *)
(* The fan-out of retrieve_relevant_chunks_for_multiple_queries: one task  *)
(* retrieve_relevant_chunks_async per sub-query, run by asyncio.gather on  *)
(* the event loop.  A task suspends in the embedding call and in the       *)
(* executor call of query_similar; between two suspensions it is atomic.   *)
(* ---------------------------------------------------------------------- *)

\* what the sub-queries of the fan-out are answered with
FetchProfiles ==
  { [ pattern |-> "interleaved", ids |-> "own", size |-> 4,
      failure |-> "none" ],
    [ pattern |-> "blocks", ids |-> "shared", size |-> 2 * TopK,
      failure |-> "none" ],
    [ pattern |-> "blocks", ids |-> "own", size |-> 0,
      failure |-> "embedding" ],
    [ pattern |-> "blocks", ids |-> "own", size |-> 0,
      failure |-> "search" ] }

\* a task is over: it has returned or raised
Over(task) == task \in {"done", "failed"}

\* gather hands back as soon as one task has returned
GatheredAny(task) == \E i \in DOMAIN task : task[i] = "done"

\* asyncio.gather(*tasks) hands results_list back: every task has returned
Gathered(task) == \A i \in DOMAIN task : task[i] = "done"

FetchInit ==
  /\ Parked
  /\ NoRequests
  /\ \E n \in 1..MaxQueries : \E profiles \in [ 1..n -> FetchProfiles ] :
       call = [ fn |-> "gather",
                state |-> "gathering",
                raw |-> [ i \in 1..n |-> Raw(profiles[i], i) ],
                failures |-> [ i \in 1..n |-> profiles[i].failure ],
                top_k |-> TopK,
                task |-> [ i \in 1..n |-> "created" ],
                n_results |-> [ i \in 1..n |-> 0 ],
                results_list |-> [ i \in 1..n |-> << >> ],
                finished |-> << >>,
                ret |-> << >>,
                stage |-> "retrieving_documents",
                events |-> << >> ]

\* task i runs up to its next suspension: into the embedding call; out of
\* it with "return []" or into query_similar with n_results = top_k * 2;
\* out of that with the processed results or with its exception
Fetch(i) ==
  /\ call.fn = "gather"
  /\ i \in DOMAIN call.task
  /\ ~Over(call.task[i])
  /\ call' =
       IF call.task[i] = "created"
         THEN [ call EXCEPT !.task[i] = "embedding" ]
       ELSE IF call.task[i] = "embedding"
         THEN IF call.failures[i] = "embedding"
                THEN [ call EXCEPT !.task[i] = "done",
                                   !.finished = Append(@, i) ]
                ELSE [ call EXCEPT !.task[i] = "searching",
                                   !.n_results[i] = call.top_k * 2 ]
       ELSE IF call.failures[i] = "search"
         THEN [ call EXCEPT !.task[i] = "failed",
                            !.finished = Append(@, i) ]
       ELSE [ call EXCEPT
                !.task[i] = "done",
                !.finished = Append(@, i),
                !.results_list[i] =
                   post_process_results(
                     Prefix(call.raw[i], call.n_results[i]), call.top_k) ]
  /\ UNCHANGED << singleVars, manyVars >>

\* gather returns: the merge, the return to send_message, the end of the
\* retrieval stage and the start of the generation stage
GatherReturns ==
  /\ call.fn = "gather"
  /\ call.state = "gathering"
  /\ Gathered(call.task)
  /\ LET merged_results == Merge(call.results_list)
         dynamic_limit == DynamicLimit(call.top_k, Len(call.raw))
     IN  call' =
           [ call EXCEPT
               !.state = "returned",
               !.ret = IF Len(merged_results) > dynamic_limit
                         THEN Prefix(SortByDistance(merged_results),
                                     dynamic_limit)
                         ELSE merged_results,
               !.stage = "generating_answer",
               !.events = List(Events(RetrieveDoneCalls \o GenerateStartCalls,
                                      0)) ]
  /\ UNCHANGED << singleVars, manyVars >>

\* gather raises the exception of the first task that fails; the other
\* tasks go on
GatherFails ==
  /\ call.fn = "gather"
  /\ call.state = "gathering"
  /\ \E i \in DOMAIN call.task : call.task[i] = "failed"
  /\ call' =
       [ call EXCEPT
           !.state = "raised",
           !.stage = "complete",
           !.events = List(Events(TimerExit(OpRetrieveChunks)
                                    \o << ErrorCall >>, 0)) ]
  /\ UNCHANGED << singleVars, manyVars >>

FetchSpec ==
  FetchInit
  /\ [][(\E i \in 1..MaxQueries : Fetch(i)) \/ GatherReturns
        \/ GatherFails]_vars

(* ---------------------------------------------------------------------- *)
(* Answer synthesis (app/rag/generator.py).  A text is a sequence of       *)
(* tokens: words, blanks, brackets and digits.                             *)
(* ---------------------------------------------------------------------- *)

\* d[key] = value of a dict kept as the list of its items in insertion
\* order: a key already there keeps its place
ItemSet(d, key, value) ==
  IF \E p \in DOMAIN d : d[p].key = key
    THEN [ p \in DOMAIN d |->
             IF d[p].key = key THEN [ key |-> key, value |-> value ]
             ELSE d[p] ]
    ELSE Append(d, [ key |-> key, value |-> value ])

\* _prepare_context_and_citations: the citation_map of the chunks
\* (formatted_chunks goes into the prompt only)
RECURSIVE prepare_context_and_citations(_)
prepare_context_and_citations(chunks) ==
  IF chunks = << >> THEN << >>
  ELSE LET i == Len(chunks) - 1
           chunk == chunks[i + 1]
       IN  ItemSet(prepare_context_and_citations(
                     SubSeq(chunks, 1, i)),
                   CitationId(i),
                   [ chunk_id |-> chunk.chunk_id,
                     document_id |-> chunk.doc ])

\* _extract_citations: the citations whose [n] stands in the answer, in
\* the order of their first mention
ExtractCitations(citation_map, answer) ==
  LET at(p) == SubSeq(answer, p, p + 2)
      cited == { p \in 1..(Len(answer) - 2) :
                   /\ \E k \in DOMAIN citation_map :
                        citation_map[k].key = at(p)
                   /\ \A r \in 1..(p - 1) : at(r) # at(p) }
      order == Pick([ p \in DOMAIN answer |-> p ], cited)
  IN  List([ n \in DOMAIN order |->
               LET item == citation_map[CHOOSE k \in DOMAIN citation_map :
                                          citation_map[k].key = at(order[n])]
               IN  [ citation_id |-> item.key,
                     chunk_id |-> item.value.chunk_id,
                     document_id |-> item.value.document_id ] ])

\* all_citations: [{**citation_data, "citation_id": citation_id}
\*                 for citation_id, citation_data in citation_map.items()]
AllCitations(citation_map, answer) ==
  List([ k \in DOMAIN citation_map |->
           [ citation_id |-> citation_map[k].key,
             chunk_id |-> citation_map[k].value.chunk_id,
             document_id |-> citation_map[k].value.document_id ] ])

\* generate_answer_async, given what chat.completions.create does: it
\* raises, or answers with a content that is a text or None
generate_answer_async(chunks, response) ==
  LET citation_map == prepare_context_and_citations(chunks)
  IN  IF response.kind # "text"
        THEN [ raised |-> TRUE, answer |-> << >>, citations |-> << >> ]
        ELSE LET answer == Strip(response.content)
             IN  [ raised |-> FALSE, answer |-> answer,
                   citations |-> AllCitations(citation_map, answer) ]

\* the chunks of the collection
ChunkPool ==
  { [ chunk_id |-> "c1", doc |-> "A" ], [ chunk_id |-> "c2", doc |-> "A" ],
    [ chunk_id |-> "c3", doc |-> "B" ] }

ChunkLists == UNION { [ 1..n -> ChunkPool ] : n \in 0..MaxChunks }

Responses ==
  { [ kind |-> "throws", content |-> << >> ],
    [ kind |-> "none", content |-> << >> ] }
  \cup
  [ kind : {"text"},
    content : { << >>,
                << " ", "w", " " >>,
                << "w", " " >> \o CitationId(0),
                << "w" >> \o CitationId(1) \o << " " >> \o CitationId(0),
                CitationId(0) \o << "w" >> \o CitationId(0),
                << "w" >> \o CitationId(8) } ]

GenerateInit ==
  /\ Parked
  /\ NoRequests
  /\ \E chunks \in ChunkLists : \E response \in Responses :
       call = [ fn |-> "generate_answer_async",
                state |-> "called",
                retrieved_chunks |-> chunks,
                response |-> response,
                ret |-> [ raised |-> FALSE, answer |-> << >>,
                          citations |-> << >> ] ]

GenerateAnswer ==
  /\ call.fn = "generate_answer_async"
  /\ call.state = "called"
  /\ call' = [ call EXCEPT
                 !.state = "returned",
                 !.ret = generate_answer_async(call.retrieved_chunks,
                                               call.response) ]
  /\ UNCHANGED << singleVars, manyVars >>

GenerateSpec == GenerateInit /\ [][GenerateAnswer]_vars

(* ---------------------------------------------------------------------- *)
(* The prompt of the answer synthesis (_format_chat_history and            *)
(* _create_final_prompt, app/rag/generator.py).  A message of the history  *)
(* is the set of its keys, its role and its content, a decoded value.      *)
(* ---------------------------------------------------------------------- *)

\* chat_history[-10:]
HistoryLimit == 10

\* the whole history taken for the recent one
RecentAll(chat_history) == chat_history

\* recent_history
Recent(chat_history) ==
  IF Len(chat_history) > HistoryLimit
    THEN SubSeq(chat_history, Len(chat_history) - HistoryLimit + 1,
                Len(chat_history))
    ELSE chat_history

\* the roles _format_chat_history lets through
ValidRoles == {"user", "assistant", "system"}

\* the message of the history is appended to formatted_history
Kept(m) ==
  /\ {"role", "content"} \subseteq m.keys
  /\ Truthy(m.content)
  /\ Strip(m.content.v) # << >>

\* _format_chat_history
format_chat_history(chat_history) ==
  LET recent_history == Recent(chat_history)
      kept == Pick(recent_history,
                   { i \in DOMAIN recent_history : Kept(recent_history[i]) })
  IN  List([ i \in DOMAIN kept |->
               [ role |-> IF kept[i].role \in ValidRoles THEN kept[i].role
                          ELSE "user",
                 content |-> kept[i].content.v ] ])

\* _get_system_prompt
system_prompt == [ role |-> "system", content |-> << "instructions" >> ]

\* the "thinking" transition between the history and the question
Transition == [ role |-> "system", content |-> << "new question" >> ]

\* _create_final_prompt
create_final_prompt(formatted_history, formatted_chunks, query) ==
  IF formatted_history # << >>
    THEN << system_prompt >> \o formatted_history
         \o << Transition,
               [ role |-> "user",
                 content |-> << "User Query: " >> \o query
                             \o << "CONTEXT:" >> \o formatted_chunks
                             \o << "follow-up clause" >> ] >>
    ELSE << system_prompt,
            [ role |-> "user",
              content |-> << "CONTEXT:" >> \o formatted_chunks
                          \o << "QUESTION: " >> \o query
                          \o << "no-invention clause" >> ] >>

\* final_prompt of generate_answer_async: the history is formatted when
\* there is one
final_prompt(chat_history, formatted_chunks, query) ==
  create_final_prompt(
    IF chat_history # << >> THEN format_chat_history(chat_history)
    ELSE << >>,
    formatted_chunks, query)

\* the kinds of message a history is made of, and the message of a kind
\* at position i, whose content names the position
TurnKinds ==
  { "user", "assistant", "system", "tool", "empty", "blank", "null",
    "no_content" }

Turn(turn_kind, i) ==
  [ keys |-> IF turn_kind = "no_content" THEN {"role"}
             ELSE {"role", "content"},
    role |-> IF turn_kind \in ValidRoles \cup {"tool"} THEN turn_kind
             ELSE "user",
    content |-> IF turn_kind \in ValidRoles \cup {"tool"}
                  THEN JStr(<< "m" >> \o Decimal(i))
                ELSE IF turn_kind = "empty" THEN JStr(<< >>)
                ELSE IF turn_kind = "blank" THEN JStr(<< " " >>)
                ELSE JNull ]

\* the histories: n turns whose kinds repeat with period 3
PromptHistories ==
  { [ i \in 1..n |-> Turn(kinds[(i % 3) + 1], i) ] :
      n \in 0..MaxHistory, kinds \in [ 1..3 -> TurnKinds ] }

PromptInit ==
  /\ Parked
  /\ NoRequests
  /\ \E chat_history \in PromptHistories :
     \E formatted_chunks \in { << >>, CitationId(0) \o << " ", "w" >> } :
       call = [ fn |-> "create_final_prompt",
                state |-> "called",
                chat_history |-> List(chat_history),
                formatted_chunks |-> formatted_chunks,
                query |-> << "q" >>,
                ret |-> << >> ]

BuildPrompt ==
  /\ call.fn = "create_final_prompt"
  /\ call.state = "called"
  /\ call' = [ call EXCEPT
                 !.state = "returned",
                 !.ret = final_prompt(call.chat_history,
                                      call.formatted_chunks, call.query) ]
  /\ UNCHANGED << singleVars, manyVars >>

PromptSpec == PromptInit /\ [][BuildPrompt]_vars

(* ---------------------------------------------------------------------- *)
(* Retrieval decision (app/services/groq_service.py).  A text is a         *)
(* sequence of tokens; a word is a run of tokens without a blank, so that  *)
(* "some", "what" side by side is one word that holds "what".  A float is  *)
(* its number of hundredths.                                               *)
(* ---------------------------------------------------------------------- *)

NoValue == [ t |-> "None" ]
ListValue(list) == [ t |-> "list", v |-> list ]

\* RetrievalDecision(...): pydantic refuses a confidence outside [0, 1]
RetrievalDecision(should_retrieve, confidence, reasoning, queries, via) ==
  IF confidence < 0 \/ confidence > 100
    THEN [ raised |-> TRUE, via |-> via ]
    ELSE [ raised |-> FALSE, via |-> via,
           should_retrieve |-> should_retrieve, confidence |-> confidence,
           reasoning |-> reasoning, suggested_queries |-> queries ]

\* is_follow_up: the last user message of the history is longer than 5
\* words and the message has at most 5
IsFollowUp(msg, conversation_history) ==
  /\ \E i \in DOMAIN conversation_history :
       conversation_history[i].role = "user"
  /\ Words(msg) <= 5
  /\ Words(LastUserQuery(conversation_history)) > 5

\* expanded_query taken for the message in every case
ExpandedQueryAlone(msg, conversation_history) == msg

\* expanded_query = previous_query + " " + message for a follow-up
ExpandedQuery(msg, conversation_history) ==
  IF IsFollowUp(msg, conversation_history)
    THEN LastUserQuery(conversation_history) \o << " " >> \o msg
    ELSE msg

question_indicators ==
  { << "?" >>, << "what" >>, << "how" >>, << "when" >>, << "where" >>,
    << "why" >>, << "who" >>, << "which" >>, << "tell", " ", "me" >>,
    << "explain" >> }

\* any(indicator in message_lower for indicator in question_indicators)
ContainsQuestion(text) ==
  \E indicator \in question_indicators : Contains(indicator, Lower(text))

HighConfidence == 70
LowConfidence == 50

\* _fallback_retrieval_decision
fallback_retrieval_decision(msg, conversation_history) ==
  LET is_follow_up == IsFollowUp(msg, conversation_history)
      expanded_query == ExpandedQuery(msg, conversation_history)
      contains_question == ContainsQuestion(expanded_query)
      is_long_enough == Words(msg) >= 3 \/ is_follow_up
      should_retrieve == contains_question /\ is_long_enough
  IN  RetrievalDecision(
        should_retrieve,
        IF contains_question THEN HighConfidence ELSE LowConfidence,
        IF is_follow_up THEN "Fallback decision (follow-up)"
        ELSE "Fallback decision",
        IF should_retrieve THEN ListValue(<< expanded_query >>) ELSE NoValue,
        "fallback")

\* float(token), in hundredths, of the tokens that are numbers
Numbers ==
  [ tok \in { "0.85", "0.5", "0", "1", "1.5", "-0.1" } |->
      CASE tok = "0.85" -> 85
        [] tok = "0.5" -> 50
        [] tok = "0" -> 0
        [] tok = "1" -> 100
        [] tok = "1.5" -> 150
        [] tok = "-0.1" -> -10 ]

\* the tokens that 0\.\d+ matches
ZeroPoint == { "0.85", "0.5" }

Keys == { "should_retrieve", "confidence", "reasoning", "suggested_queries" }

\* json.loads of a flat object "{" key ":" value "," ... "}": the pairs
\* of the object, or a failure
Loads(content) ==
  LET n == Len(content)
      pairs == (n - 1) \div 4
      well_formed ==
        /\ n >= 2 /\ content[1] = "{" /\ content[n] = "}"
        /\ n = 2 \/ (n - 1) % 4 = 0
        /\ \A p \in 1..pairs :
             /\ content[4 * p - 2] \in Keys
             /\ content[4 * p - 1] = ":"
             /\ content[4 * p] \in (DOMAIN Numbers)
                                     \cup { "true", "false", "r", "[]" }
             /\ content[4 * p + 1] = (IF p = pairs THEN "}" ELSE ",")
  IN  IF ~well_formed THEN [ raised |-> TRUE, data |-> << >> ]
      ELSE [ raised |-> FALSE,
             data |-> [ p \in 1..(IF n = 2 THEN 0 ELSE pairs) |->
                          [ key |-> content[4 * p - 2],
                            value |-> content[4 * p] ] ] ]

Has(data, key) == \E p \in DOMAIN data : data[p].key = key
Get(data, key) ==
  data[CHOOSE p \in DOMAIN data :
         data[p].key = key /\ \A r \in DOMAIN data :
                                data[r].key = key => r <= p].value

\* RetrievalDecision(**decision_data): the three required fields with
\* values of their types, confidence inside [0, 1]
FromData(data) ==
  IF /\ Has(data, "should_retrieve")
     /\ Get(data, "should_retrieve") \in { "true", "false" }
     /\ Has(data, "confidence")
     /\ Get(data, "confidence") \in DOMAIN Numbers
     /\ Has(data, "reasoning")
     /\ Get(data, "reasoning") = "r"
     /\ Has(data, "suggested_queries")
          => Get(data, "suggested_queries") = "[]"
    THEN RetrievalDecision(
           Get(data, "should_retrieve") = "true",
           Numbers[Get(data, "confidence")],
           "r",
           IF Has(data, "suggested_queries") THEN ListValue(<< >>)
           ELSE NoValue,
           "parsed")
    ELSE [ raised |-> TRUE, via |-> "parsed" ]

\* _extract_decision_from_text: the regular expressions over the tokens
extract_decision_from_text(text) ==
  LET after(key, values) ==
        { i \in 1..(Len(text) - 2) :
            /\ text[i] = key /\ text[i + 1] = ":" /\ text[i + 2] \in values }
      first(match) == CHOOSE i \in match : \A j \in match : i <= j
      lowered == Lower(text)
      should_retrieve ==
        \E i \in 1..(Len(text) - 2) :
          SubSeq(lowered, i, i + 2) = << "should_retrieve", ":", "true" >>
      confidence_match == after("confidence", ZeroPoint)
      reasoning_match == after("reasoning", { "r" })
      queries_section == after("suggested_queries", { "[]" })
  IN  RetrievalDecision(
        should_retrieve,
        IF confidence_match # {}
          THEN Numbers[text[first(confidence_match) + 2]]
          ELSE LowConfidence,
        IF reasoning_match # {} THEN "r"
        ELSE "Extracted from malformed response",
        ListValue(<< >>),
        "extracted")

\* the body of the try of analyze_retrieval_need after the call
Parsed(outcome) ==
  IF outcome.kind = "throws" \/ outcome.kind = "none"
    THEN [ raised |-> TRUE, via |-> "call" ]
  ELSE LET loaded == Loads(outcome.content)
           decision == IF loaded.raised THEN loaded
                       ELSE FromData(loaded.data)
       IN  IF decision.raised
             THEN extract_decision_from_text(outcome.content)
             ELSE decision

\* the exception left on its way out of analyze_retrieval_need
Reraised(decision, msg, conversation_history) == decision

\* except Exception as e: return self._fallback_retrieval_decision(...)
FallbackOnError(decision, msg, conversation_history) ==
  IF decision.raised
    THEN fallback_retrieval_decision(msg, conversation_history)
    ELSE decision

\* a fallback whose reasoning tells what the call did
AnalyzeTellingError(client, outcome, msg, conversation_history) ==
  LET decision ==
        IF ~client
          THEN fallback_retrieval_decision(msg, conversation_history)
          ELSE FallbackOnError(Parsed(outcome), msg, conversation_history)
  IN  IF decision.via = "fallback"
        THEN [ decision EXCEPT !.reasoning = outcome.kind ]
        ELSE decision

\* analyze_retrieval_need
analyze_retrieval_need(client, outcome, msg, conversation_history) ==
  IF ~client
    THEN fallback_retrieval_decision(msg, conversation_history)
    ELSE FallbackOnError(Parsed(outcome), msg, conversation_history)

Messages ==
  { << >>,
    << "hi" >>,
    << "what" >>,
    << "What", " ", "is", " ", "revenue" >>,
    << "some", "what", " ", "more" >>,
    << "and", " ", "europe", "?" >>,
    << "and", " ", "europe" >>,
    << "tell", " ", "me", " ", "more" >>,
    << "show", " ", "q3", " ", "revenue", " ", "by", " ", "region", " ",
       "now" >> }

LongQuestion ==
  << "what", " ", "was", " ", "revenue", " ", "in", " ", "q3", " ", "for",
     " ", "asia" >>

LongStatement ==
  << "show", " ", "revenue", " ", "in", " ", "q3", " ", "for", " ", "asia",
     " ", "now" >>

Conversations ==
  { << >>,
    << [ role |-> "assistant", content |-> << "r" >> ] >>,
    << [ role |-> "user", content |-> << "p" >> ] >>,
    << [ role |-> "user", content |-> LongQuestion ] >>,
    << [ role |-> "user", content |-> LongStatement ],
       [ role |-> "assistant", content |-> << "r" >> ] >>,
    << [ role |-> "user", content |-> LongQuestion ],
       [ role |-> "user", content |-> << "p" >> ] >> }

Contents ==
  { << "sorry" >>,
    << "should_retrieve", ":", "True", "confidence", ":", "0.85" >>,
    << "{", "}" >>,
    << "{", "should_retrieve", ":", "true", ",", "confidence", ":", "0.85",
       ",", "reasoning", ":", "r", "}" >>,
    << "{", "should_retrieve", ":", "false", ",", "confidence", ":", "1",
       ",", "reasoning", ":", "r", ",", "suggested_queries", ":", "[]",
       "}" >>,
    << "{", "should_retrieve", ":", "true", ",", "confidence", ":", "1.5",
       ",", "reasoning", ":", "r", "}" >>,
    << "{", "should_retrieve", ":", "true", ",", "confidence", ":", "-0.1",
       ",", "reasoning", ":", "r", "}" >>,
    << "{", "should_retrieve", ":", "true", ",", "confidence", ":", "0.5",
       "}" >> }

Outcomes ==
  { [ kind |-> "throws", content |-> << >> ],
    [ kind |-> "none", content |-> << >> ] }
  \cup [ kind : {"text"}, content : Contents ]

\* calls of one decision function on the same arguments
Calls == 2

DecideInit ==
  /\ Parked
  /\ NoRequests
  /\ \E msg0 \in Messages : \E history \in Conversations :
     \E client \in BOOLEAN : \E outcomes \in [ 1..Calls -> Outcomes ] :
       /\ ~client => \A n \in 1..Calls : outcomes[n].kind = "throws"
       /\ call = [ fn |-> "analyze_retrieval_need",
                   client |-> client,
                   message |-> msg0,
                   conversation_history |-> history,
                   outcomes |-> outcomes,
                   rets |-> << >> ]

Analyze ==
  /\ call.fn = "analyze_retrieval_need"
  /\ Len(call.rets) < Calls
  /\ call' = [ call EXCEPT
                 !.rets = Append(call.rets,
                   analyze_retrieval_need(
                     call.client, call.outcomes[Len(call.rets) + 1],
                     call.message, call.conversation_history)) ]
  /\ UNCHANGED << singleVars, manyVars >>

DecideSpec == DecideInit /\ [][Analyze]_vars

(* ---------------------------------------------------------------------- *)
(* The decision on its way from analyze_retrieval_need to send_message:    *)
(* should_use_retrieval (app/rag/groq_retrieval_decider.py) turns it into  *)
(* a dict, which send_message reads.  A dict is the function from its keys *)
(* to its values.                                                          *)
(* ---------------------------------------------------------------------- *)

\* d.get(key, default)
DictGet(d, key, default) == IF key \in DOMAIN d THEN d[key] ELSE default

\* should_use_retrieval: the result dict for the decision of the service
should_use_retrieval(decision) ==
  LET result == [ retrieval_needed |-> decision.should_retrieve,
                  reasoning |-> decision.reasoning,
                  confidence |-> decision.confidence ]
      suggested ==
        IF decision.suggested_queries = NoValue THEN << >>
        ELSE decision.suggested_queries.v
  IN  IF suggested = << >> THEN result
      ELSE IF decision.should_retrieve
        THEN result @@ [ suggested_queries |-> suggested,
                         optimized_query |-> suggested[1] ]
      ELSE result @@ [ suggested_queries |-> suggested ]

\* "Check the format of the retrieval_decision and handle accordingly":
\* use_retrieval and the details of the update that closes the stage
ReadDecision(retrieval_decision) ==
  IF "should_retrieve" \in DOMAIN retrieval_decision
    THEN [ should_retrieve |-> retrieval_decision["should_retrieve"],
           confidence |-> DictGet(retrieval_decision, "confidence", 0),
           reasoning |-> DictGet(retrieval_decision, "reasoning", "") ]
    ELSE [ should_retrieve |->
             DictGet(retrieval_decision, "retrieval_needed", TRUE),
           confidence |-> 0,
           reasoning |-> DictGet(retrieval_decision, "reasoning", "") ]

BranchInit ==
  /\ Parked
  /\ NoRequests
  /\ \E msg0 \in Messages : \E history \in Conversations :
     \E client \in BOOLEAN : \E outcome \in Outcomes :
       /\ ~client => outcome.kind = "throws"
       /\ call = [ fn |-> "should_use_retrieval",
                   state |-> "called",
                   client |-> client,
                   query |-> msg0,
                   chat_history |-> history,
                   outcome |-> outcome,
                   decision |-> << >>,
                   retrieval_decision |-> << >>,
                   details |-> << >>,
                   next |-> "" ]

\* should_use_retrieval asks the service for its decision and returns
\* the dict to send_message
ShouldUseRetrieval ==
  /\ call.fn = "should_use_retrieval"
  /\ call.state = "called"
  /\ LET decision == analyze_retrieval_need(call.client, call.outcome,
                                            call.query, call.chat_history)
     IN  call' = [ call EXCEPT
                     !.state = "returned",
                     !.decision = decision,
                     !.retrieval_decision = should_use_retrieval(decision) ]
  /\ UNCHANGED << singleVars, manyVars >>

\* send_message reads the dict, sends the update that closes the stage
\* and takes the branch "if use_retrieval:"
BranchOnDecision ==
  /\ call.fn = "should_use_retrieval"
  /\ call.state = "returned"
  /\ LET details == ReadDecision(call.retrieval_decision)
     IN  call' = [ call EXCEPT
                     !.state = "branched",
                     !.details = details,
                     !.next = IF details.should_retrieve
                                THEN "splitting_query"
                                ELSE "generating_answer" ]
  /\ UNCHANGED << singleVars, manyVars >>

BranchSpec == BranchInit /\ [][ShouldUseRetrieval \/ BranchOnDecision]_vars

(* ---------------------------------------------------------------------- *)
(* The queue id of a request and the way it reaches the caller            *)
(* (send_message, chat_routes.py).  The handler writes X-Queue-ID on the   *)
(* Response object it was injected with; the framework sends the headers   *)
(* of that object together with the body once the handler has returned,    *)
(* and does not send them when the handler raises HTTPException.  A token  *)
(* is a string, "" when there is none.                                     *)
(* ---------------------------------------------------------------------- *)

\* f"{session_id}_{str(uuid.uuid4())}"
Generated == "uuid"

\* request.headers.get('X-Client-Queue-ID'), then message.metadata
\* ['queue_id'] when the header gave nothing
client_queue_id(request) ==
  IF request.header # "" THEN request.header ELSE request.metadata

\* queue_id = client_queue_id if client_queue_id else f"..."
queue_id_of(request) ==
  IF client_queue_id(request) # "" THEN client_queue_id(request)
  ELSE Generated

\* the response the caller has not received yet
NoReply == [ status |-> "pending", queue_id |-> "" ]

\* the tokens the caller holds: the ones it sent and the one echoed to it
Known ==
  { call.request.header, call.request.metadata, call.reply.queue_id } \ {""}

EchoInit ==
  /\ Parked
  /\ NoRequests
  /\ \E request \in [ header : {"", "h1"}, metadata : {"", "m1"},
                      stream_processing : BOOLEAN ] :
       call = [ fn |-> "send_message",
                request |-> request,
                pc |-> "start",
                queue_id |-> "",
                stage |-> 0,
                registry |-> {},
                events |-> << >>,
                headers |-> "",
                reply |-> NoReply,
                stream |-> [ token |-> "", found |-> FALSE, behind |-> 0 ] ]

\* from the entry of send_message to "Determine retrieval": the queue id
\* is chosen, the queue registered, the first update put in it and the
\* header written on the Response object
Accept ==
  /\ call.fn = "send_message"
  /\ call.pc = "start"
  /\ LET queue_id == queue_id_of(call.request)
     IN  call' =
           IF call.request.stream_processing
             THEN [ call EXCEPT !.pc = "running", !.stage = 1,
                                !.queue_id = queue_id,
                                !.registry = {queue_id},
                                !.events = << Stages[1] >>,
                                !.headers = queue_id ]
             ELSE [ call EXCEPT !.pc = "running", !.stage = 1,
                                !.queue_id = queue_id ]
  /\ UNCHANGED << singleVars, manyVars >>

\* the next stage of the pipeline starts and publishes its update
Stage ==
  /\ call.fn = "send_message"
  /\ call.pc = "running"
  /\ call.stage < Len(Stages) - 1
  /\ call' =
       [ call EXCEPT
           !.stage = @ + 1,
           !.events = IF call.queue_id \in call.registry
                        THEN Append(@, Stages[call.stage + 1]) ELSE @ ]
  /\ UNCHANGED << singleVars, manyVars >>

\* the completion update and "return MessageResponse(**ai_message)": the
\* framework answers with the body and the headers of the Response object
Return ==
  /\ call.fn = "send_message"
  /\ call.pc = "running"
  /\ call.stage = Len(Stages) - 1
  /\ call' =
       [ call EXCEPT
           !.pc = "returned",
           !.stage = Len(Stages),
           !.events = IF call.queue_id \in call.registry
                        THEN Append(@, "complete") ELSE @,
           !.reply = [ status |-> "200", queue_id |-> call.headers ] ]
  /\ UNCHANGED << singleVars, manyVars >>

\* the except branch: the error update and HTTPException(500), whose
\* response carries the headers of the exception only
Fail ==
  /\ call.fn = "send_message"
  /\ call.pc = "running"
  /\ call' =
       [ call EXCEPT
           !.pc = "raised",
           !.events = IF call.queue_id \in call.registry
                        THEN Append(@, "complete") ELSE @,
           !.reply = [ status |-> "500", queue_id |-> "" ] ]
  /\ UNCHANGED << singleVars, manyVars >>

\* the caller opens its subscribe connection with a token it holds;
\* behind is the number of events published before it did
Open ==
  /\ call.fn = "send_message"
  /\ call.stream.token = ""
  /\ \E token \in Known :
       call' = [ call EXCEPT
                   !.stream = [ token |-> token,
                                found |-> token \in call.registry,
                                behind |-> Len(call.events) ] ]
  /\ UNCHANGED << singleVars, manyVars >>

EchoSpec == EchoInit /\ [][Accept \/ Stage \/ Return \/ Fail \/ Open]_vars

(* ---------------------------------------------------------------------- *)
(* Properties                                                              *)
(* ---------------------------------------------------------------------- *)

Last(seq) == seq[Len(seq)]

IsUpdate(e) == e.type = "processing_update"

\* the positions of seq that hold a terminal event
Terminals(seq) == { i \in DOMAIN seq : IsComplete(seq[i]) }

\* subscriber s has been handed the terminal event
TerminalDelivered(s) == Terminals(delivered[s]) # {}

\* no connection but s has ever attached to the queue
Alone(s) ==
  \A o \in Subs \ {s} : spc[o] \in {"idle", "absent", "rejected"}

\* C1: over the events published for one request, progressPercentage never
\* decreases from one event to the next up to the terminal event.
C1_PercentageNeverDecreases ==
  \A i \in 1..(Len(published) - 1) :
    (\A k \in 1..i : ~IsComplete(published[k]))
      => published[i].progressPercentage <= published[i + 1].progressPercentage

C3_StageNeverMovesBack ==
  \A i, j \in DOMAIN published :
    i < j => IndexOf(Stages, published[i].stage)
               <= IndexOf(Stages, published[j].stage)

\* a failure in a non-terminal stage: send_message has raised and had not
\* published its completion update
FailedInStage ==
  /\ pc = "raised"
  /\ Registered
  /\ \A i \in 1..(Len(published) - 1) : ~IsComplete(published[i])

C5_EndsOnlyAfterTerminal ==
  \A s \in Subs : spc[s] = "ended" => TerminalDelivered(s)

\* C6: a client that subscribes only after the terminal event was
\* published, no other consumer having attached, still receives it.
C6_LateSubscriberGetsTerminal ==
  \A s \in Subs :
    (spc[s] = "accepted" /\ attachedAt[s] = "late" /\ Alone(s))
      ~> \/ TerminalDelivered(s)
         \/ spc[s] = "disconnected"
         \/ ~Alone(s)

\* a client that attached after the terminal event was published has been
\* handed it
C6_Witness ==
  /\ attachedAt[First] = "late"
  /\ Alone(First)
  /\ TerminalDelivered(First)

\* C7: with a single subscriber the progress events are delivered in
\* publish order, whatever heartbeat frames come between them.
C7_DeliveredInPublishOrder ==
  \A s \in Subs :
    Alone(s) =>
      \A i, j \in DOMAIN delivered[s] :
        (i < j /\ IsUpdate(delivered[s][i]) /\ IsUpdate(delivered[s][j]))
          => delivered[s][i].seq < delivered[s][j].seq

\* two progress events were delivered to the only subscriber with a
\* heartbeat frame between them
C7_Witness ==
  /\ Alone(First)
  /\ \E i, j, k \in DOMAIN delivered[First] :
       /\ i < j /\ j < k
       /\ IsUpdate(delivered[First][i])
       /\ delivered[First][j].type \in {"heartbeat", "keepalive"}
       /\ IsUpdate(delivered[First][k])

\* C8: once a subscriber has been delivered the terminal event and its
\* stream has ended, the queue id is no longer in the registry.
C8_ClosedAfterTerminal ==
  \A s \in Subs :
    (spc[s] = "ended" /\ TerminalDelivered(s)) => QueueId \notin session_queues

\* C9: after a disconnect in mid-stream the queue id is out of the
\* registry, the consumer task of the stream is cancelled (or had ended),
\* and nothing more is delivered on the stream.
C9_DisconnectCleansUp ==
  /\ [](\A s \in Subs :
          spc[s] = "disconnected" =>
            /\ QueueId \notin session_queues
            /\ consumer[s] \in {"none", "cancelled", "exited"})
  /\ [][\A s \in Subs :
          spc[s] = "disconnected" => delivered'[s] = delivered[s]]_vars

\* C10: a registered queue id whose client never opens a stream is
\* eventually removed from the registry.
C10_UnsubscribedTokenCollected ==
  (QueueId \in session_queues)
    ~> \/ QueueId \notin session_queues
       \/ \E s \in Subs : spc[s] \notin {"idle", "absent", "rejected"}

\* send_message has returned or raised
Finished == pc \in {"returned", "raised"}

\* a connection has been closed by its client
Closed == \E s \in Subs : spc[s] = "disconnected"

\* the events added to the publish history by the current step
NewlyPublished == SubSeq(published', Len(published) + 1, Len(published'))

\* C11: closing a token while its pipeline runs neither cancels nor fails
\* the pipeline: the step that closes it leaves send_message where it is,
\* every later publish attempt puts nothing in the queue, the next step of the
\* pipeline can still succeed, and send_message returns or raises.
C11_CloseLeavesPipelineRunning ==
  /\ [][(~Closed /\ Closed') => UNCHANGED pipeVars]_vars
  /\ [][(Closed /\ QueueId \notin session_queues /\ pc # "start")
          => (published' = published /\ Len(q') <= Len(q))]_vars
  /\ [](Closed /\ ~Finished => ENABLED (Pipeline /\ pc' # "raised"))
  /\ (Closed /\ ~Finished) ~> Finished

\* the client left before the completion update and send_message has
\* returned its response all the same
C11_Witness ==
  /\ message.stream_processing
  /\ spc[First] = "disconnected"
  /\ QueueId \notin session_queues
  /\ pc = "returned"
  /\ http = "200"
  /\ Terminals(published) = {}

RetrievalCollaborators ==
  { "should_use_retrieval", "split_query_into_subqueries",
    "retrieve_relevant_chunks_for_multiple_queries" }

\* C14: with use_retrieval = false the request never calls the decider,
\* the split or the retrieval, publishes no splitting_query or
\* retrieving_documents event, records the reasoning of the disabled
\* retrieval in the reasoning field of the deciding_retrieval event that
\* closes the stage, and returns an answer without citations.
C14_RetrievalDisabled ==
  message.use_retrieval = "False" =>
    /\ invoked \cap RetrievalCollaborators = {}
    /\ \A i \in DOMAIN published :
         /\ published[i].stage \notin {"splitting_query", "retrieving_documents"}
         /\ (published[i].stage = "deciding_retrieval" /\ published[i].isCompleted)
              => published[i].reasoning = DisabledReasoning
    /\ pc = "returned" => citations = << >>

\* the channel of token u: whether it is registered and what waits in it
Channel(u) ==
  IF u \in DOMAIN registered
    THEN << TRUE, queues[registered[u]] >>
    ELSE << FALSE, << >> >>

\* C13: with several requests in flight under distinct tokens, an
\* operation on one token (register, publish, subscribe, take, close)
\* neither removes nor alters the channel of another token, and a stream
\* yields only events published under its own token.
C13_TokensIsolated ==
  /\ [](\A t \in Tokens : \A i \in DOMAIN received[t] :
          received[t][i].token = t)
  /\ [][\A t \in Tokens :
          OnToken(t) => \A u \in Tokens \ {t} : Channel(u)' = Channel(u)]_vars

\* one token has been closed by its stream while another is registered,
\* holds a waiting event and has had an event delivered
C13_Witness ==
  \E t, u \in Tokens :
    /\ t # u
    /\ handle[t] # NoObject
    /\ t \notin DOMAIN registered
    /\ received[t] # << >>
    /\ u \in DOMAIN registered
    /\ received[u] # << >>
    /\ queues[registered[u]] # << >>

\* split_query_into_subqueries has been evaluated
SplitReturned ==
  call.fn = "split_query_into_subqueries" /\ call.state = "returned"

\* the first item of the list that is the string s but for its case
FirstSeen(items, s) ==
  CHOOSE k \in DOMAIN items :
    /\ items[k].t = "str" /\ Lower(items[k].v) = Lower(s)
    /\ \A j \in 1..(k - 1) :
         ~(items[j].t = "str" /\ Lower(items[j].v) = Lower(s))

\* the answer held a list of at least two items, strings or false values,
\* one of them a non-empty string: the list the function returns is made
\* of these items
FromItems ==
  /\ call.first.shape \in ListShapes
  /\ Len(call.first.items) >= 2
  /\ \A k \in DOMAIN call.first.items :
       Truthy(call.first.items[k]) => call.first.items[k].t = "str"
  /\ \E k \in DOMAIN call.first.items : Truthy(call.first.items[k])

\* C15: whatever the query, the history and the answers of the reasoning
\* calls, the returned list has at least one entry, its entries differ
\* pairwise when compared without case, and they stand in first-seen
\* order, each in the spelling that was seen first.
C15_SplitNonEmptyDistinct ==
  SplitReturned =>
    LET r == call.ret.value
    IN  /\ Len(r) >= 1
        /\ \A i, j \in DOMAIN r : i < j => Lower(r[i]) # Lower(r[j])
        /\ FromItems =>
             /\ \A i \in DOMAIN r :
                  call.first.items[FirstSeen(call.first.items, r[i])].v = r[i]
             /\ \A i, j \in DOMAIN r :
                  i < j => FirstSeen(call.first.items, r[i])
                             < FirstSeen(call.first.items, r[j])
             /\ \A k \in DOMAIN call.first.items :
                  Truthy(call.first.items[k]) =>
                    \E i \in DOMAIN r :
                      Lower(r[i]) = Lower(call.first.items[k].v)

\* the answer listed a sub-query twice, in two spellings, and the function
\* has returned the first spelling alone
C15_Witness ==
  /\ SplitReturned
  /\ call.first.shape = "sub_queries"
  /\ call.first.items = << JStr(<< "Q" >>), JStr(<< "q" >>) >>
  /\ call.ret.value = << << "Q" >> >>

\* C16: when the reasoning call throws on the structured attempt and on
\* the plain retry and the history is empty, the function returns the
\* query and "Information about " + query, two entries.
C16_ThrowsGivesTwoEntries ==
  ( /\ SplitReturned
    /\ call.first.shape = "throws"
    /\ call.second.kind = "throws"
    /\ call.chat_history = << >> )
  => call.ret.value
       = << call.query, << "Information about " >> \o call.query >>

RetrieveReturned ==
  /\ call # None
  /\ call.fn = "retrieve_relevant_chunks_for_multiple_queries"
  /\ call.state = "returned"

\* the sub-queries whose results hold the chunk_id
Finders(chunk_id) ==
  { i \in DOMAIN call.results_list :
      \E j \in DOMAIN call.results_list[i] :
        call.results_list[i][j].chunk_id = chunk_id }

\* C18: the list returned by retrieve_relevant_chunks_for_multiple_queries
\* holds no chunk_id twice, and a chunk found by several sub-queries is
\* there as the copy of the earliest of them in list order.
C18_MergedDistinctFirstWins ==
  RetrieveReturned =>
    /\ \A j, k \in DOMAIN call.ret :
         call.ret[j].chunk_id = call.ret[k].chunk_id => j = k
    /\ \A j \in DOMAIN call.ret :
         /\ call.ret[j].from \in Finders(call.ret[j].chunk_id)
         /\ \A i \in Finders(call.ret[j].chunk_id) : call.ret[j].from <= i

C18_Witness ==
  /\ RetrieveReturned
  /\ \E j \in DOMAIN call.ret :
       /\ Cardinality(Finders(call.ret[j].chunk_id)) >= 2
       /\ call.ret[j].from = 1
  /\ \E j \in DOMAIN call.ret : call.ret[j].from = 2

Count(chunks, doc_id) ==
  Cardinality({ j \in DOMAIN chunks : chunks[j].doc = doc_id })

DocsOf(chunks) == { chunks[j].doc : j \in DOMAIN chunks }

\* ceil(top_k / n)
Share(top_k, n) == (top_k + n - 1) \div n

\* candidates of at least 2 documents, each with its share of candidates
EnoughCandidates(candidates, top_k) ==
  /\ Cardinality(DocsOf(candidates)) >= 2
  /\ \A d \in DocsOf(candidates) :
       Count(candidates, d)
         >= Share(top_k, Cardinality(DocsOf(candidates)))

\* a selection of at most limit chunks takes place when there are more
FairShare(candidates, limit, output, top_k) ==
  (Len(candidates) > limit /\ EnoughCandidates(candidates, top_k)) =>
    \A d \in DocsOf(candidates) :
      Count(Prefix(output, top_k), d)
        <= Share(top_k, Cardinality(DocsOf(candidates))) + 1

\* C19: over candidates of at least 2 source documents, each with enough
\* candidates, no source document has more than
\* ceil(top_k / documents) + 1 of the first top_k chunks selected, in the
\* selection for one sub-query and in the final selection.
C19_FairShare ==
  RetrieveReturned =>
    /\ \A i \in DOMAIN call.raw :
         FairShare(call.raw[i], call.top_k, call.results_list[i],
                   call.top_k)
    /\ FairShare(Merge(call.results_list),
                 DynamicLimit(call.top_k, Len(call.raw)), call.ret,
                 call.top_k)

\* C20: when 3 sub-queries return chunks of documents A, B and C and the
\* merged distinct chunks exceed the final cap, the output holds at most
\* dynamic_limit = 20 chunks and every one of A, B and C is in it.
C20_RoundRobinFinal ==
  ( /\ RetrieveReturned
    /\ Len(call.raw) = 3
    /\ DocsOf(Merge(call.results_list)) = Range(Docs)
    /\ Len(Merge(call.results_list))
         > DynamicLimit(call.top_k, Len(call.raw)) )
  => /\ DynamicLimit(call.top_k, Len(call.raw)) = 20
     /\ Len(call.ret) <= 20
     /\ \A d \in Range(Docs) : Count(call.ret, d) >= 1

\* C21: retrieve_relevant_chunks_for_multiple_queries returns at most top_k
\* chunks for one sub-query and at most
\* dynamic_limit = min(max(top_k * 2, sub-queries * 5), 30) for several.
C21_SizeCapped ==
  RetrieveReturned =>
    /\ Len(call.raw) = 1 => Len(call.ret) <= call.top_k
    /\ Len(call.raw) > 1 =>
         Len(call.ret)
           <= Min(Max(call.top_k * 2, Len(call.raw) * 5), 30)

C21_Witness ==
  /\ RetrieveReturned
  /\ Len(call.raw) > 1
  /\ Len(Merge(call.results_list)) > Len(call.ret)
  /\ Len(call.ret) = Min(Max(call.top_k * 2, Len(call.raw) * 5), 30)

\* C22: the list returned by retrieve_relevant_chunks_for_multiple_queries
\* is in non-decreasing order of distance, for one or several sub-queries,
\* cut or not.
C22_Ascending ==
  RetrieveReturned =>
    \A j \in 1..(Len(call.ret) - 1) :
      call.ret[j].distance <= call.ret[j + 1].distance

GenerateReturned ==
  /\ call # None
  /\ call.fn = "generate_answer_async"
  /\ call.state = "returned"
  /\ ~call.ret.raised

\* C23: for the n chunks passed to generate_answer_async the citations
\* returned are n, the i-th with the marker "[i]" and the chunk_id of the
\* i-th chunk, whether or not the answer holds the marker.
C23_CitationsMirrorChunks ==
  GenerateReturned =>
    /\ Len(call.ret.citations) = Len(call.retrieved_chunks)
    /\ \A i \in DOMAIN call.retrieved_chunks :
         /\ call.ret.citations[i].citation_id
              = << "[" >> \o Decimal(i) \o << "]" >>
         /\ call.ret.citations[i].chunk_id
              = call.retrieved_chunks[i].chunk_id

C23_Witness ==
  /\ GenerateReturned
  /\ Len(call.retrieved_chunks) >= 2
  /\ Contains(<< "[", "1", "]" >>, call.ret.answer)
  /\ ~Contains(<< "[", "2", "]" >>, call.ret.answer)
  /\ call.ret.citations[2].chunk_id = call.retrieved_chunks[2].chunk_id

Decisions ==
  IF call # None /\ call.fn = "analyze_retrieval_need" THEN call.rets
  ELSE << >>

OnFallback(n) ==
  /\ n \in DOMAIN Decisions
  /\ ~Decisions[n].raised
  /\ Decisions[n].via = "fallback"

\* C24: on the fallback path should_retrieve is "an indicator is there and
\* (the message has 3 words or more or it is a follow-up)", the indicator
\* looked for in the last user message followed by the message for a
\* follow-up and in the message alone otherwise; the confidence is 0.7
\* with an indicator and 0.5 without.
C24_FallbackHeuristic ==
  \A n \in DOMAIN Decisions : OnFallback(n) =>
    LET follow_up == IsFollowUp(call.message, call.conversation_history)
        text == IF follow_up
                  THEN LastUserQuery(call.conversation_history)
                         \o << " " >> \o call.message
                  ELSE call.message
        indicator == \E ind \in question_indicators :
                       Contains(ind, Lower(text))
    IN  /\ Decisions[n].should_retrieve
             = (indicator /\ (Words(call.message) >= 3 \/ follow_up))
        /\ Decisions[n].confidence = (IF indicator THEN 70 ELSE 50)

C24_Witness ==
  /\ OnFallback(1)
  /\ IsFollowUp(call.message, call.conversation_history)
  /\ Words(call.message) < 3
  /\ ~ContainsQuestion(call.message)
  /\ Decisions[1].should_retrieve
  /\ Decisions[1].confidence = 70

\* C25: analyze_retrieval_need returns a decision with a confidence in
\* [0, 1] whatever the reasoning call does (no client, the call raises,
\* the answer is no JSON, the JSON fails the validation) and raises
\* nothing.
C25_AlwaysDecides ==
  \A n \in DOMAIN Decisions :
    /\ ~Decisions[n].raised
    /\ Decisions[n].confidence >= 0
    /\ Decisions[n].confidence <= 100
    /\ Decisions[n].should_retrieve \in BOOLEAN

C25_Witness ==
  /\ Len(Decisions) = Calls
  /\ call.outcomes[1].kind = "throws"
  /\ Decisions[1].via = "fallback"
  /\ call.outcomes[2].kind = "text"
  /\ ~Loads(call.outcomes[2].content).raised
  /\ FromData(Loads(call.outcomes[2].content).data).raised
  /\ Decisions[2].via = "extracted"

C27_PercentageFromStage ==
  \A n \in DOMAIN published :
    LET e == published[n]
    IN  IsUpdate(e) =>
          e.progressPercentage =
            (IF e.stage = "complete" THEN 100
             ELSE IF e.isCompleted
               THEN (IndexOf(CallbackStages, e.stage) + 1) * 20
             ELSE IndexOf(CallbackStages, e.stage) * 20 + 10)

\* C28: a failure of the embedding call or of the similarity search for
\* one sub-query counts as an empty result of that sub-query: the call
\* returns, with the chunks of the other sub-queries merged.
C28_FailureIsEmptyResult ==
  ( /\ call # None
    /\ call.fn = "retrieve_relevant_chunks_for_multiple_queries"
    /\ call.state # "called"
    /\ \E i \in DOMAIN call.failures : call.failures[i] # "none" )
  => /\ call.state = "returned"
     /\ call.ret = retrieve_relevant_chunks_for_multiple_queries(
                     call.raw, call.top_k)
     /\ \A i \in DOMAIN call.failures :
          call.failures[i] # "none" => call.results_list[i] = << >>

\* C29: a failure of an external call of the pipeline (the decision, the
\* split, the similarity search, the answer generation) is recovered by a
\* fallback: the step in which the similarity search or the answer
\* generation fails does not take send_message to the error state, to a
\* server error response or to an error event.
C29_ExternalFailureRecovered ==
  [][(RetrieveFails \/ GenerateFails \/ DirectFails)
       => ( pc' # "raised" /\ http' # "500"
            /\ (\A n \in DOMAIN published' : ~published'[n].error) )]_vars

\* C30: a call of send_message without streaming ends, given that every
\* external call returns or fails, and it ends in one of two ways, the
\* answer payload or the error response, once.
C30_NonStreamingTerminates ==
  /\ [](~message.stream_processing =>
          /\ (pc = "returned") <=> (http = "200")
          /\ (pc = "raised") <=> (http = "500")
          /\ http \in {"pending", "200", "500"})
  /\ [][(~message.stream_processing /\ Finished)
          => (pc' = pc /\ http' = http /\ citations' = citations)]_vars
  /\ (~message.stream_processing) ~> Finished

C30_Witness ==
  /\ ~message.stream_processing
  /\ pc = "returned"
  /\ http = "200"
  /\ "generate_answer_async" \in invoked
  /\ citations = ResultCitations
  /\ citations # << >>

\* retrieval was used and came back with no chunk
NoResults == retrieved_chunks = Bound(<< >>)

\* C31: when retrieval is used and returns no chunk, the request does not
\* enter the error state: the step in which the retrieval returns goes on
\* to generating_answer, the answer can be returned from there, and a
\* request that has returned carries an empty list of citations, answers
\* 200 and, with its channel registered, has closed generating_answer and
\* published complete without an error mark.
C31_NoResultsIsNotAnError ==
  /\ [][(pc = "retrieve" /\ retrieved_chunks' = Bound(<< >>))
          => /\ pc' = "generate"
             /\ http' = "pending"
             /\ \A n \in DOMAIN published' : ~published'[n].error]_vars
  /\ []((NoResults /\ pc = "generate" /\ background = "done")
          => ENABLED (GenerateReturns /\ pc' = "returned"))
  /\ []((NoResults /\ pc = "returned")
          => /\ http = "200"
             /\ citations = << >>
             /\ Registered =>
                  /\ Last(published).stage = "complete"
                  /\ ~Last(published).error
                  /\ \E n \in DOMAIN published :
                       /\ published[n].stage = "generating_answer"
                       /\ published[n].isCompleted)

\* a streaming request whose retrieval found nothing has returned
C31_Witness ==
  /\ NoResults
  /\ pc = "returned"
  /\ Registered
  /\ citations = << >>
  /\ Last(published).stage = "complete"

\* C32: a streaming request registers its channel under the token of the
\* X-Client-Queue-ID header when there is one, else under the token of
\* the message metadata when there is one, else under a generated token;
\* and once stage events are produced the caller holds that token, so
\* that it can open the subscribe connection while the pipeline runs.
C32_TokenEchoedBeforeStages ==
  ( /\ call # None
    /\ call.fn = "send_message"
    /\ call.request.stream_processing
    /\ call.pc # "start" )
  => /\ call.queue_id =
          ( IF call.request.header # "" THEN call.request.header
            ELSE IF call.request.metadata # "" THEN call.request.metadata
            ELSE Generated )
     /\ call.queue_id \in call.registry
     /\ call.headers = call.queue_id
     /\ call.events # << >> => call.queue_id \in Known

\* C33: on the fallback path the message is a follow-up exactly when it
\* has at most 5 words and the history is not empty; a follow-up is
\* marked as one in the reasoning, and the question indicators are then
\* looked for in the most recent user turn followed by the message.
C33_FollowUpWhenShort ==
  \A n \in DOMAIN Decisions : OnFallback(n) =>
    LET short == /\ Words(call.message) <= 5
                 /\ call.conversation_history # << >>
        user_turn == \E i \in DOMAIN call.conversation_history :
                       call.conversation_history[i].role = "user"
    IN  /\ (Decisions[n].reasoning = "Fallback decision (follow-up)")
             <=> short
        /\ (short /\ user_turn) =>
             Decisions[n].should_retrieve
               = ContainsQuestion(LastUserQuery(call.conversation_history)
                                    \o << " " >> \o call.message)

\* the reasoning call has answered with a list of non-empty strings
Decomposed ==
  /\ SplitReturned
  /\ call.first.shape \in ListShapes
  /\ call.first.items # << >>
  /\ \A k \in DOMAIN call.first.items :
       call.first.items[k].t = "str" /\ call.first.items[k].v # << >>

\* C34: when the reasoning call gives a single sub-query, or sub-queries
\* of which one is left without the duplicates (compared without case), a
\* second variation is added: the returned list is never a singleton.
C34_NeverSingleton ==
  Decomposed => Len(call.ret.value) >= 2

\* the function had to make the sub-queries of a short follow-up itself:
\* a query of at most 5 words, a user turn in the history, and one
\* sub-query from the reasoning call (structured or plain answer)
ShortFollowUp ==
  /\ SplitReturned
  /\ Words(call.query) <= 5
  /\ LastUserQuery(call.chat_history) # << >>
  /\ \/ call.first.shape \in ListShapes /\ Len(call.first.items) = 1
     \/ /\ call.first.shape \in Unparsed
        /\ call.second.kind = "text"
        /\ Len(ParseLines(call.second.lines)) = 1

\* C35: every sub-query the function makes for a short follow-up holds
\* the text of the most recent user turn, in the region, product, year
\* and generic branch alike.
C35_FollowUpFoldsLastTurn ==
  ShortFollowUp =>
    /\ Len(call.ret.value) = 3
    /\ \A i \in DOMAIN call.ret.value :
         Contains(LastUserQuery(call.chat_history), call.ret.value[i])

\* the year branch, or the generic branch, has been taken
C35_Witness ==
  /\ ShortFollowUp
  /\ \/ /\ call.query = << "year" >>
        /\ call.ret.value[3] = << "yearly comparison of ", "p" >>
     \/ /\ call.query = << "q" >>
        /\ call.ret.value[2] = << "q", " in context of ", "p" >>

\* the fan-out is under way or over
Fanned == call # None /\ call.fn = "gather"

\* the retrieval stage has completed: the merge has run, the event that
\* closes retrieving_documents is published or generation has started
StageCompleted ==
  \/ call.state = "returned"
  \/ call.stage = "generating_answer"
  \/ \E n \in DOMAIN call.events :
       /\ call.events[n].stage = "retrieving_documents"
       /\ call.events[n].isCompleted

\* C36: the fetches of the sub-queries run concurrently, each asks the
\* similarity search for top_k * 2 chunks, and the retrieval stage
\* completes only when every fetch has returned, whatever the order in
\* which the fetches advance and finish; the merged result does not
\* depend on that order.
C36_FanInAfterAllFetches ==
  Fanned =>
    /\ \A i \in DOMAIN call.task :
         /\ call.n_results[i] \in {0, call.top_k * 2}
         /\ call.task[i] \in {"searching", "failed"}
              => call.n_results[i] = call.top_k * 2
         /\ (call.task[i] = "done" /\ call.failures[i] = "none")
              => call.n_results[i] = call.top_k * 2
    /\ StageCompleted =>
         /\ \A i \in DOMAIN call.task : call.task[i] = "done"
         /\ call.results_list = Gather(call.raw, call.top_k)
         /\ call.ret = retrieve_relevant_chunks_for_multiple_queries(
                         call.raw, call.top_k)

\* of three fetches the last one has finished first, and the stage has
\* completed with the chunks of all three
C36_Witness ==
  /\ Fanned
  /\ StageCompleted
  /\ Len(call.task) = 3
  /\ call.finished = << 3, 1, 2 >>
  /\ \A i \in 1..3 : \E k \in DOMAIN call.ret : call.ret[k].from = i

\* the prompt has been built
PromptBuilt ==
  call # None /\ call.fn = "create_final_prompt" /\ call.state = "returned"

\* the positions of the history the prompt may draw on: the last 10
LastTurns ==
  { i \in DOMAIN call.chat_history : i > Len(call.chat_history) - 10 }

\* C37: the prompt starts with the system instruction and ends with the
\* user turn that holds the question and the context; between them stand
\* messages of the last 10 turns of the history only, in their order, each
\* with a role among user, assistant and system and a content that is not
\* empty; with an empty history, or one whose last 10 turns are all
\* dropped, the prompt is the system instruction and the user turn.
C37_PromptShape ==
  PromptBuilt =>
    LET prompt == call.ret
        history == SubSeq(prompt, 2, Len(prompt) - 2)
        usable == { i \in LastTurns : Kept(call.chat_history[i]) }
    IN  /\ Len(prompt) >= 2
        /\ prompt[1] = system_prompt
        /\ Last(prompt).role = "user"
        /\ Contains(call.query, Last(prompt).content)
        /\ Contains(<< "CONTEXT:" >> \o call.formatted_chunks,
                    Last(prompt).content)
        /\ Len(history) <= 10
        /\ \A k \in DOMAIN history :
             /\ history[k].role \in {"user", "assistant", "system"}
             /\ Strip(history[k].content) # << >>
             /\ \E i \in LastTurns :
                  call.chat_history[i].content = JStr(history[k].content)
        /\ \A k, l \in DOMAIN history :
             k < l => \E i, j \in LastTurns :
                        /\ i < j
                        /\ call.chat_history[i].content.v = history[k].content
                        /\ call.chat_history[j].content.v = history[l].content
        /\ usable = {} => Len(prompt) = 2
        /\ usable # {} => Len(prompt) = Cardinality(usable) + 3

\* a history of 12 turns, some of them dropped: the prompt holds turns 3
\* onwards only, and a turn with an unknown role as a user turn
C37_Witness ==
  /\ PromptBuilt
  /\ Len(call.chat_history) = 12
  /\ Kept(call.chat_history[1])
  /\ call.chat_history[3].role = "tool"
  /\ call.ret[2] = [ role |-> "user", content |-> << "m", "3" >> ]
  /\ ~Kept(call.chat_history[5])
  /\ call.ret[3].content = << "m", "4" >>
  /\ call.ret[4].content = << "m", "6" >>

\* a stage of the pipeline has run
StageRan == invoked # {} \/ published # << >>

\* the stored messages of role assistant
AssistantSaved ==
  { n \in DOMAIN chat_messages : chat_messages[n].role = "assistant" }

C39_DecisionCarried ==
  ( /\ call # None
    /\ call.fn = "should_use_retrieval"
    /\ call.state = "branched" )
  => /\ call.next = ( IF call.decision.should_retrieve
                         THEN "splitting_query" ELSE "generating_answer" )
     /\ call.details.should_retrieve = call.decision.should_retrieve
     /\ call.details.reasoning = call.decision.reasoning
     /\ call.details.confidence = call.decision.confidence

\* a consumer is attached to token t and the token is registered
Attached(t) == handle[t] # NoObject /\ t \in DOMAIN registered

\* C40: a streaming request started with a token that is already
\* registered does not strand the consumer attached to that token: the
\* events buffered for it stay where it reads, and every event published
\* under the token while it is attached has been received by it or waits
\* in the queue it reads.
C40_SecondRegistrationKeepsConsumer ==
  /\ [][\A t \in Tokens :
          (Attached(t) /\ RegisterAgain(t))
            => queues'[handle[t]] = queues[handle[t]]]_vars
  /\ [](\A t \in Tokens : Attached(t) =>
          /\ handle[t] = registered[t]
          /\ \A n \in 1..sent[t] :
               \/ TokenUpdate(t, n) \in Range(received[t])
               \/ TokenUpdate(t, n) \in Range(queues[handle[t]]))

====
